---- MODULE Spec2Model ----
(***************************************************************************)
(* ReadGNSS: mesh-code codec (apps/mesh.py), fiscal-year resolution        *)
(* (apps/semidynamic.py, apps/config.py) and semi-dynamic correction       *)
(* (apps/semidynamic.py).                                                  *)
(*                                                                         *)
(* Representation.  The program works on Python floats.  Here a coordinate *)
(* is an integer number of milli-arcseconds (mas), so that every divisor   *)
(* of the source (40', 5', 30", 15", 7.5', 7.5', 45", 22.5", 11.25", 225", *)
(* 150", 0.1") is an integer and the arithmetic is exact.  A value the     *)
(* source holds in degrees, minutes or seconds is the same integer: only   *)
(* the divisor is expressed in the matching unit (Deg, Min, Sec).  Strings *)
(* are sequences of one-character strings.                                 *)
(***************************************************************************)
EXTENDS Integers, Sequences, FiniteSets, TLC

VARIABLES
    points,      \* the coordinates still to be processed, <<lon, lat>> each
    codes,       \* the mesh-code strings still to be decoded
    mesh,        \* the MeshCode object constructed last (with its arguments)
    prev,        \* the MeshCode object constructed before `mesh`
    rev,         \* the ReverseMeshCode object constructed last
    survey,      \* the timestamp of the survey being processed
    corrector,   \* the apps.semidynamic.SemiDynamicCorrection object
    web_request, \* the apps.config.SemiDynamicCorrection validation done last
    reads,       \* the parameter files opened and parsed so far, in order
    result,      \* what the last _correction_2d call returned or raised
    locals,      \* arguments and local variables of that call
    calls,       \* the single-point correction_2d calls made, with their outcome
    batch,       \* the last correction_2d call with two lists, with its outcome
    records,     \* the DataModel objects handed to DataModels(models=...)
    args,        \* the arguments of the DataModels method calls still to be made
    data_models, \* the apps.models.DataModels object
    last_call,   \* the last call on data_models: method, models before, exception
    main,        \* the fetch_..._main coroutine: its position and its results
    tasks,       \* the fetch coroutines being gathered, by index
    requests,    \* per index: the GET requests sent, and whether one was answered
    fetched      \* what fetch_..._from_web returned or raised

inputVars == <<points, codes>>
meshVars == <<mesh, prev, rev>>
yearVars == <<survey, corrector, web_request, reads>>
corrVars == <<result, locals, calls, batch>>
modelVars == <<records, args, data_models, last_call>>
webVars == <<main, tasks, requests, fetched>>

vars == <<points, codes, mesh, prev, rev, survey, corrector, web_request,
          reads, result, locals, calls, batch, records, args, data_models,
          last_call, main, tasks, requests, fetched>>

None == [none |-> TRUE]

\* Op(v) with v evaluated once: a local variable that holds a computed value.
ByValue(v, Op(_)) == CHOOSE r \in {Op(x) : x \in {v}} : TRUE

-----------------------------------------------------------------------------
(* Units *)

Sec == 1000           \* mas in one arcsecond
Min == 60 * Sec       \* mas in one arcminute
Deg == 60 * Min       \* mas in one degree

-----------------------------------------------------------------------------
(* Python builtins used by the codec *)

DigitChars == <<"0", "1", "2", "3", "4", "5", "6", "7", "8", "9">>

RECURSIVE StrNat(_)
StrNat(n) ==
    IF n < 10 THEN <<DigitChars[n + 1]>>
    ELSE StrNat(n \div 10) \o <<DigitChars[(n % 10) + 1]>>

\* str(int(v)) of an integral value: decimal digits, "-" first when negative,
\* no padding.
str(n) == IF n < 0 THEN <<"-">> \o StrNat(-n) ELSE StrNat(n)

\* int(x) / math.modf: truncation toward zero of a / b (b > 0).
Trunc(a, b) == IF a >= 0 THEN a \div b ELSE -((-a) \div b)

-----------------------------------------------------------------------------
(* apps/mesh.py : MeshCode *)

\* Variant of the latitude part: the standard index taken with the 45" of
\* the longitude cell instead of the 30" of the latitude cell.
_mesh_code_latitude_cell45(lat) ==
    LET p == lat \div (40 * Min)
        a == lat % (40 * Min)
        q == a \div (5 * Min)
        b == a % (5 * Min)
        r == b \div (45 * Sec)
        c == b % (45 * Sec)
        s == c \div (15 * Sec)
        t == b \div ((15 * Min) \div 2)
    IN  [p |-> p, q |-> q, r |-> r, s |-> s, t |-> t]

\* Variant of the latitude part: the half index taken from the remainder b of
\* the secondary level instead of the remainder c of the standard level.
_mesh_code_latitude_half_of_b(lat) ==
    LET p == lat \div (40 * Min)
        a == lat % (40 * Min)
        q == a \div (5 * Min)
        b == a % (5 * Min)
        r == b \div (30 * Sec)
        s == b \div (15 * Sec)
        t == b \div ((15 * Min) \div 2)
    IN  [p |-> p, q |-> q, r |-> r, s |-> s, t |-> t]

\* Variant of the latitude part: the quarter index taken from the remainder
\* d of the half level (7.5" quarters of the 15" half cell) instead of the
\* remainder b of the secondary level.
_mesh_code_latitude_quarter_of_d(lat) ==
    LET p == lat \div (40 * Min)
        a == lat % (40 * Min)
        q == a \div (5 * Min)
        b == a % (5 * Min)
        r == b \div (30 * Sec)
        c == b % (30 * Sec)
        s == c \div (15 * Sec)
        d == c % (15 * Sec)
        t == d \div ((15 * Sec) \div 2)
    IN  [p |-> p, q |-> q, r |-> r, s |-> s, t |-> t]

\* "# latitude" part of _mesh_code: the indices p, q, r, s, t.
_mesh_code_latitude(lat) ==
    LET p == lat \div (40 * Min)
        a == lat % (40 * Min)
        q == a \div (5 * Min)
        b == a % (5 * Min)
        r == b \div (30 * Sec)
        c == b % (30 * Sec)
        s == c \div (15 * Sec)
        t == b \div ((15 * Min) \div 2)
    IN  [p |-> p, q |-> q, r |-> r, s |-> s, t |-> t]

\* Variant of the longitude part: the quarter index taken with half the
\* quarter width (5.625" instead of 11.25").
_mesh_code_longitude_quarter_halved(lon) ==
    LET i == Trunc(lon, Deg)
        f == lon - i * Deg
        u == i - 100
        v == f \div ((15 * Min) \div 2)
        g == f % ((15 * Min) \div 2)
        w == g \div (45 * Sec)
        h == g % (45 * Sec)
        x == h \div ((45 * Sec) \div 2)
        j == h % ((45 * Sec) \div 2)
        y == j \div ((45 * Sec) \div 8)
    IN  [u |-> u, v |-> v, w |-> w, x |-> x, y |-> y]

\* "# longitude" part of _mesh_code: the indices u, v, w, x, y.
_mesh_code_longitude(lon) ==
    LET i == Trunc(lon, Deg)
        f == lon - i * Deg
        u == i - 100
        v == f \div ((15 * Min) \div 2)
        g == f % ((15 * Min) \div 2)
        w == g \div (45 * Sec)
        h == g % (45 * Sec)
        x == h \div ((45 * Sec) \div 2)
        j == h % ((45 * Sec) \div 2)
        y == j \div ((45 * Sec) \div 4)
    IN  [u |-> u, v |-> v, w |-> w, x |-> x, y |-> y]

_mesh_code(lon, lat) ==
    LET la == _mesh_code_latitude(lat)
        lo == _mesh_code_longitude(lon)
        first_lat_code == str(la.p)
        secandary_lat_code == str(la.q)
        standard_lat_code == str(la.r)
        first_lon_code == str(lo.u)
        secandary_lon_code == str(lo.v)
        standard_lon_code == str(lo.w)
        m == str((la.s * 2) + (lo.x + 1))
        n == str((la.t * 2) + (lo.y + 1))
        first_mesh_code == first_lat_code \o first_lon_code
        secandary_mesh_code ==
            first_mesh_code \o secandary_lat_code \o secandary_lon_code
        standard_mesh_code ==
            secandary_mesh_code \o standard_lat_code \o standard_lon_code
        half_mesh_code == standard_mesh_code \o m
        quarter_mesh_code == half_mesh_code \o n
    IN  [first_mesh_code |-> first_mesh_code,
         secandary_mesh_code |-> secandary_mesh_code,
         standard_mesh_code |-> standard_mesh_code,
         half_mesh_code |-> half_mesh_code,
         quarter_mesh_code |-> quarter_mesh_code]

\* MeshCode(lon, lat): the object's five fields; no path of the constructor
\* raises for a finite coordinate, so `error` is always "none".
MeshCode(lon, lat) ==
    LET code == _mesh_code(lon, lat)
    IN  [lon |-> lon, lat |-> lat, error |-> "none",
         first_mesh_code |-> code.first_mesh_code,
         secandary_mesh_code |-> code.secandary_mesh_code,
         standard_mesh_code |-> code.standard_mesh_code,
         half_mesh_code |-> code.half_mesh_code,
         quarter_mesh_code |-> code.quarter_mesh_code]

-----------------------------------------------------------------------------
(* Python int(str) and slicing, used by ReverseMeshCode *)

IsDigit(ch) == \E k \in 1..10 : DigitChars[k] = ch

DigitVal(ch) == (CHOOSE k \in 1..10 : DigitChars[k] = ch) - 1

RECURSIVE Strip(_)
Strip(txt) ==
    IF txt = <<>> THEN txt
    ELSE IF Head(txt) = " " THEN Strip(Tail(txt))
    ELSE IF txt[Len(txt)] = " " THEN Strip(SubSeq(txt, 1, Len(txt) - 1))
    ELSE txt

\* Value of the first n characters of body, underscores skipped.
RECURSIVE DigitsValue(_, _)
DigitsValue(body, n) ==
    IF n = 0 THEN 0
    ELSE IF body[n] = "_" THEN DigitsValue(body, n - 1)
    ELSE 10 * DigitsValue(body, n - 1) + DigitVal(body[n])

\* int(txt) for a str: surrounding blanks are stripped, one sign is accepted,
\* then decimal digits, with single underscores only between digits.
\* ok = FALSE stands for ValueError.
int(txt) ==
    LET stripped == Strip(txt)
        signed == stripped # <<>> /\ Head(stripped) \in {"+", "-"}
        body == IF signed THEN Tail(stripped) ELSE stripped
        valid == /\ body # <<>>
                 /\ IsDigit(body[1])
                 /\ IsDigit(body[Len(body)])
                 /\ \A k \in 1..Len(body) : IsDigit(body[k]) \/ body[k] = "_"
                 /\ \A k \in 1..(Len(body) - 1) :
                        ~(body[k] = "_" /\ body[k + 1] = "_")
        magnitude == DigitsValue(body, Len(body))
    IN  IF ~valid THEN [ok |-> FALSE, val |-> 0]
        ELSE [ok |-> TRUE,
              val |-> IF signed /\ Head(stripped) = "-" THEN -magnitude
                      ELSE magnitude]

\* txt[from:to] (0-based, end exclusive, clamped to the length)
Slice(txt, from, to) ==
    SubSeq(txt, from + 1, IF to < Len(txt) THEN to ELSE Len(txt))

-----------------------------------------------------------------------------
(* apps/mesh.py : ReverseMeshCode *)

_mesh_to_first_lonlat(mesh_code) ==
    LET code_first_two == int(Slice(mesh_code, 0, 2))
        code_last_two == int(Slice(mesh_code, 2, 4))
    IN  IF ~code_first_two.ok \/ ~code_last_two.ok THEN [ok |-> FALSE]
        ELSE [ok |-> TRUE,
              lon |-> (code_last_two.val + 100) * Deg,
              lat |-> code_first_two.val * ((2 * Deg) \div 3)]

_mesh_to_seccandary_lonlat(mesh_code) ==
    LET code_fifth == int(Slice(mesh_code, 4, 5))
        code_sixth == int(Slice(mesh_code, 5, 6))
    IN  IF ~code_fifth.ok \/ ~code_sixth.ok THEN [ok |-> FALSE]
        ELSE [ok |-> TRUE,
              lon |-> code_sixth.val * (Deg \div 8),
              lat |-> code_fifth.val * (((2 * Deg) \div 3) \div 8)]

_mesh_to_standard_lonlat(mesh_code) ==
    LET code_seventh == int(Slice(mesh_code, 6, 7))
        code_eighth == int(Slice(mesh_code, 7, 8))
    IN  IF ~code_seventh.ok \/ ~code_eighth.ok THEN [ok |-> FALSE]
        ELSE [ok |-> TRUE,
              lon |-> code_eighth.val * ((Deg \div 8) \div 10),
              lat |-> code_seventh.val * ((((2 * Deg) \div 3) \div 8) \div 10)]

\* ReverseMeshCode(mesh_code): the object's fields, or the ValueError that
\* int() raised on one of the slices.
ReverseMeshCode(mesh_code) ==
    LET first_lonlat == _mesh_to_first_lonlat(mesh_code)
        second_lonlat == _mesh_to_seccandary_lonlat(mesh_code)
        standard_lonlat == _mesh_to_standard_lonlat(mesh_code)
    IN  IF ~first_lonlat.ok \/ ~second_lonlat.ok \/ ~standard_lonlat.ok
        THEN [mesh_code |-> mesh_code, error |-> "ValueError"]
        ELSE [mesh_code |-> mesh_code, error |-> "none",
              lon |-> first_lonlat.lon + second_lonlat.lon + standard_lonlat.lon,
              lat |-> first_lonlat.lat + second_lonlat.lat + standard_lonlat.lat]

-----------------------------------------------------------------------------
(* Inputs *)

MaxLonCell == 2       \* quarter cells stepped through in longitude
MaxLatCell == 2       \* quarter cells stepped through in latitude
MaxCodeLen == 10      \* longest string handed to ReverseMeshCode

QuarterLon == (45 * Sec) \div 4
QuarterLat == (15 * Sec) \div 2

\* One quarter cell west / south of the grid node (140.5 deg, 40 deg), which
\* is a node of the 225" x 150" correction grid and of the standard mesh.
LonOrigin == 505800 * Sec - QuarterLon
LatOrigin == 144000 * Sec - QuarterLat

\* Offsets inside a quarter cell: its south-west edge, an interior position
\* and 0.04" before the next edge.
SubLon == {0, 4000, QuarterLon - 40}
SubLat == {0, 3000, QuarterLat - 40}

GridLons == {LonOrigin + k * QuarterLon + o : k \in 0..MaxLonCell, o \in SubLon}
GridLats == {LatOrigin + k * QuarterLat + o : k \in 0..MaxLatCell, o \in SubLat}

\* (140.5555, 40.001), (140.74128, 40.82416), (141.1592, 39.7002),
\* (140.8755, 38.2678) of apps/tests/test_mesh.py
TestPoints ==
    { <<505999800, 144003600>>, <<506668608, 146966976>>,
      <<508173120, 142920720>>, <<507151800, 137764080>> }

\* Points at the rim of the declared domain [100, 180) x [0, 66 2/3) deg.
RimPoints ==
    { <<100 * Deg, 40 * Deg>>, <<105 * Deg, 40 * Deg>>, <<140 * Deg, 0>>,
      <<140 * Deg, 3 * Deg>>, <<180 * Deg - 1, 100 * 40 * Min - 1>> }

\* Points outside the declared domain.
OutsidePoints ==
    { <<100 * Deg - 1, 40 * Deg>>, <<180 * Deg, 40 * Deg>>,
      <<140 * Deg, -1>>, <<140 * Deg, 100 * 40 * Min>>,
      <<-(Deg \div 2), 40 * Deg>>, <<140 * Deg, -(Deg \div 2)>> }

Points == TestPoints \cup RimPoints \cup OutsidePoints \cup (GridLons \X GridLats)

InDomain(lon, lat) ==
    /\ 100 * Deg <= lon /\ lon < 180 * Deg
    /\ 0 <= lat /\ lat < 100 * 40 * Min

BaseCode == <<"6", "0", "4", "0", "0", "4", "0", "4">>

OtherChars == {"a", " ", "+", "-", "_"}

\* Strings handed to ReverseMeshCode: the prefixes of a standard code, the
\* code with one character replaced, and the code followed by more characters.
Codes ==
    {SubSeq(BaseCode, 1, k) : k \in 0..Len(BaseCode)}
    \cup {[BaseCode EXCEPT ![k] = ch] : k \in 1..Len(BaseCode), ch \in OtherChars}
    \cup {BaseCode \o tl :
            tl \in UNION {[1..k -> {"1", "4", "a"}] :
                            k \in 1..(MaxCodeLen - Len(BaseCode))}}

-----------------------------------------------------------------------------
(* Operations *)

\* mesh = MeshCode(lon, lat) for the next coordinate
NewMeshCode ==
    /\ points # <<>>
    /\ mesh' = MeshCode(Head(points)[1], Head(points)[2])
    /\ prev' = mesh
    /\ points' = Tail(points)
    /\ UNCHANGED <<codes, rev, yearVars, corrVars, modelVars, webVars>>

\* mesh.py __main__: mesh_code = MeshCode(lon, lat);
\* reverse_mesh_code = ReverseMeshCode(mesh_code.standard_mesh_code)
RoundTrip ==
    /\ points # <<>>
    /\ mesh' = MeshCode(Head(points)[1], Head(points)[2])
    /\ rev' = ReverseMeshCode(mesh'.standard_mesh_code)
    /\ points' = Tail(points)
    /\ UNCHANGED <<codes, prev, yearVars, corrVars, modelVars, webVars>>

\* rev = ReverseMeshCode(mesh_code) for the next string
NewReverseMeshCode ==
    /\ codes # <<>>
    /\ rev' = ReverseMeshCode(Head(codes))
    /\ codes' = Tail(codes)
    /\ UNCHANGED <<points, mesh, prev, yearVars, corrVars, modelVars, webVars>>

NoObjects ==
    /\ mesh = None /\ prev = None /\ rev = None
    /\ corrector = None /\ web_request = None /\ reads = <<>>
    /\ result = None /\ locals = None
    /\ calls = {} /\ batch = None
    /\ data_models = None /\ last_call = None
    /\ main = None /\ tasks = <<>> /\ requests = <<>> /\ fetched = None

\* Two coordinates are encoded one after the other.
InitMesh ==
    /\ points \in Points \X Points
    /\ codes = <<>>
    /\ survey = None
    /\ records = <<>> /\ args = <<>>
    /\ NoObjects

NextMesh == NewMeshCode

SpecMesh == InitMesh /\ [][NextMesh]_vars

\* One coordinate is encoded and decoded, or one string is decoded.
InitDecode ==
    /\ \/ points \in {<<pt>> : pt \in Points} /\ codes = <<>>
       \/ points = <<>> /\ codes \in {<<mesh_code>> : mesh_code \in Codes}
    /\ survey = None
    /\ records = <<>> /\ args = <<>>
    /\ NoObjects

NextDecode == RoundTrip \/ NewReverseMeshCode

SpecDecode == InitDecode /\ [][NextDecode]_vars

-----------------------------------------------------------------------------
(* Claims on MeshCode *)

Encoded == mesh # None

\* C2: for a point of the domain, first = lat1 lon1, secondary = first lat2
\* lon2, standard = secondary lat3 lon3 with lat1 = floor(lat*60/40),
\* lon1 = floor(lon) - 100, lat2 = floor((lat*60 mod 40)/5),
\* lon2 = floor(frac(lon)*60/7.5), lat3 = floor(((lat*60 mod 40) mod 5)*60/30),
\* lon3 = floor(((frac(lon)*60) mod 7.5)*60/45); (140.5555, 40.001) gives
\* 6040 / 604004 / 60400404 and (140.74128, 40.82416) 6140 / 614015 / 61401589.
C2_Levels ==
    (Encoded /\ InDomain(mesh.lon, mesh.lat)) =>
        LET lat1 == mesh.lat \div 2400000
            lon1 == (mesh.lon \div 3600000) - 100
            lat2 == (mesh.lat % 2400000) \div 300000
            lon2 == (mesh.lon % 3600000) \div 450000
            lat3 == ((mesh.lat % 2400000) % 300000) \div 30000
            lon3 == ((mesh.lon % 3600000) % 450000) \div 45000
        IN  /\ mesh.first_mesh_code = str(lat1) \o str(lon1)
            /\ mesh.secandary_mesh_code
                 = mesh.first_mesh_code \o str(lat2) \o str(lon2)
            /\ mesh.standard_mesh_code
                 = mesh.secandary_mesh_code \o str(lat3) \o str(lon3)
            /\ (mesh.lon = 505999800 /\ mesh.lat = 144003600) =>
                  /\ mesh.first_mesh_code = <<"6", "0", "4", "0">>
                  /\ mesh.secandary_mesh_code = <<"6", "0", "4", "0", "0", "4">>
                  /\ mesh.standard_mesh_code
                       = <<"6", "0", "4", "0", "0", "4", "0", "4">>
            /\ (mesh.lon = 506668608 /\ mesh.lat = 146966976) =>
                  /\ mesh.first_mesh_code = <<"6", "1", "4", "0">>
                  /\ mesh.secandary_mesh_code = <<"6", "1", "4", "0", "1", "5">>
                  /\ mesh.standard_mesh_code
                       = <<"6", "1", "4", "0", "1", "5", "8", "9">>

C2_Witness ==
    /\ Encoded
    /\ mesh.lon = 506668608 /\ mesh.lat = 146966976
    /\ mesh.standard_mesh_code = <<"6", "1", "4", "0", "1", "5", "8", "9">>

\* C3: for a point of the domain the half code is the standard code followed
\* by the digit m = 2*floor(r3/15) + floor(r2/22.5) + 1, r3 the latitude
\* remainder in the 30" cell and r2 the longitude remainder in the 45" cell,
\* and m is one of 1, 2, 3, 4.
C3_Half ==
    (Encoded /\ InDomain(mesh.lon, mesh.lat)) =>
        LET r3 == mesh.lat % 30000
            r2 == mesh.lon % 45000
            m == 2 * (r3 \div 15000) + (r2 \div 22500) + 1
        IN  /\ m \in 1..4
            /\ mesh.half_mesh_code = mesh.standard_mesh_code \o str(m)

C3_Witness ==
    /\ Encoded /\ InDomain(mesh.lon, mesh.lat)
    /\ mesh.lat % 30000 >= 15000 /\ mesh.lon % 45000 >= 22500
    /\ mesh.half_mesh_code = mesh.standard_mesh_code \o <<"4">>

\* C4 (as stated): for a point of the domain the codes are 4, 6, 8, 9 and 10
\* characters long.
C4_FixedLength ==
    (Encoded /\ InDomain(mesh.lon, mesh.lat)) =>
        /\ Len(mesh.first_mesh_code) = 4
        /\ Len(mesh.secandary_mesh_code) = 6
        /\ Len(mesh.standard_mesh_code) = 8
        /\ Len(mesh.half_mesh_code) = 9
        /\ Len(mesh.quarter_mesh_code) = 10

\* C5 (as stated): a point outside the domain makes MeshCode fail with a
\* range error.
C5_RangeError ==
    (Encoded /\ ~InDomain(mesh.lon, mesh.lat)) => mesh.error = "RangeError"

SameQuarterCell(lon1, lat1, lon2, lat2) ==
    /\ lon1 \div 11250 = lon2 \div 11250
    /\ lat1 \div 7500 = lat2 \div 7500

\* C7: two coordinates of the same quarter cell (11.25" x 7.5") get the same
\* first, secondary, standard, half and quarter code.
C7_QuarterInvariant ==
    (Encoded /\ prev # None
        /\ SameQuarterCell(mesh.lon, mesh.lat, prev.lon, prev.lat)) =>
        /\ mesh.first_mesh_code = prev.first_mesh_code
        /\ mesh.secandary_mesh_code = prev.secandary_mesh_code
        /\ mesh.standard_mesh_code = prev.standard_mesh_code
        /\ mesh.half_mesh_code = prev.half_mesh_code
        /\ mesh.quarter_mesh_code = prev.quarter_mesh_code

C7_Witness ==
    /\ Encoded /\ prev # None
    /\ SameQuarterCell(mesh.lon, mesh.lat, prev.lon, prev.lat)
    /\ mesh.lon # prev.lon /\ mesh.lat # prev.lat
    /\ mesh.quarter_mesh_code = prev.quarter_mesh_code

-----------------------------------------------------------------------------
(* Claims on ReverseMeshCode *)

Decoded == rev # None

\* C6 (as stated): for a point of the domain, decoding its standard code gives
\* the south-west corner (lon0, lat0) of the standard cell that holds it:
\* lon0 <= lon < lon0 + 45" and lat0 <= lat < lat0 + 30".
C6_RoundTrip ==
    (Encoded /\ Decoded /\ rev.mesh_code = mesh.standard_mesh_code
        /\ InDomain(mesh.lon, mesh.lat)) =>
        /\ rev.error = "none"
        /\ rev.lon <= mesh.lon /\ mesh.lon < rev.lon + 45000
        /\ rev.lat <= mesh.lat /\ mesh.lat < rev.lat + 30000

EightDigits(txt) == Len(txt) = 8 /\ \A k \in 1..Len(txt) : IsDigit(txt[k])

\* C8 (as stated): ReverseMeshCode rejects every input that is not exactly 8
\* decimal digits.
C8_Rejects ==
    (Decoded /\ ~EightDigits(rev.mesh_code)) => rev.error # "none"

-----------------------------------------------------------------------------
(* Parameter files (apps/user/SemiDyna<year>.par) *)

MaxYearIdx == 5       \* survey years 2021 .. 2021 + MaxYearIdx

SurveyYears == 2021..(2021 + MaxYearIdx)

\* Years for which the user directory holds a parameter file.
FileYears == 2022..2025

ParFileName(y) ==
    <<"S", "e", "m", "i", "D", "y", "n", "a">> \o str(y) \o <<".", "p", "a", "r">>

\* glob(os.path.join(current_dir, "user", "SemiDyna*.par"))
SEMIDYNA_FILES == [k \in 1..Cardinality(FileYears) |-> ParFileName(2021 + k)]

\* A token of line.split(" "): a blank, a word or a numeral, possibly
\* followed by the line's "\n".
Blank == [kind |-> "blank", word |-> "", num |-> 0, nl |-> FALSE]
Word(w, nl) == [kind |-> "word", word |-> w, num |-> 0, nl |-> nl]
Num(v, nl) == [kind |-> "num", word |-> "", num |-> v, nl |-> nl]

HeaderLine ==
    <<Word("MeshCode", FALSE), Word("dB(sec)", FALSE), Blank,
      Word("dL(sec)", FALSE), Word("dH(m)", TRUE)>>

DataLine(code, dB, dL, dH) ==
    <<Num(code, FALSE), Blank, Num(dB, FALSE), Blank, Blank, Num(dL, FALSE),
      Blank, Blank, Num(dH, TRUE)>>

\* MeshCode, dB, dL, dH of the nine nodes of the 225" x 150" grid around
\* (140.5 deg, 40 deg) and of the four nodes of the grid cell north-east of
\* (140.5 deg, 32 deg 17' 30"); the unit of dB and dL is left open (the
\* source holds them as seconds of arc).
GridRows ==
    << <<59407355, 1, -3, 2>>, <<59407450, 2, 4, 0>>, <<59407455, -1, 5, 1>>,
       <<60400305, 3, -2, 0>>, <<60400400, -4, 1, 3>>, <<60400405, 5, 2, -1>>,
       <<60400355, -2, 6, 1>>, <<60400450, 4, -5, 2>>, <<60400455, -3, 3, 0>>,
       <<48403450, 2, -1, 1>>, <<48403455, -3, 4, 0>>,
       <<48404400, 1, 2, -2>>, <<48404405, 4, -2, 3>> >>

\* A space before the line's "\n" leaves the token "\n".
BlankNl == [kind |-> "blank", word |-> "", num |-> 0, nl |-> TRUE]

\* The data line as the files of the year y space it: as DataLine, with
\* leading and trailing spaces (2023), or with single spaces (2025).
SpacedLine(y, code, dB, dL, dH) ==
    CASE y = 2023 ->
            <<Blank, Blank, Num(code, FALSE), Num(dB, FALSE), Blank, Blank, Blank,
              Num(dL, FALSE), Num(dH, FALSE), BlankNl>>
      [] y = 2025 ->
            <<Num(code, FALSE), Num(dB, FALSE), Num(dL, FALSE), Num(dH, TRUE)>>
      [] OTHER -> DataLine(code, dB, dL, dH)

\* The 15 lines before the header; those of 2023 repeat the header and hold
\* a line that reads like a data line.
Preamble(y) ==
    [k \in 1..15 |->
        IF y = 2023 /\ k = 14 THEN HeaderLine
        ELSE IF y = 2023 /\ k = 15 THEN DataLine(60400400, 9, 9, 9)
        ELSE IF y = 2023 /\ k = 13 THEN DataLine(36230600, 7, 7, 7)
        ELSE <<Word("#", TRUE)>>]

\* f.readlines() of the file of year y, every line split at " ".
FileLines(y) ==
    Preamble(y)
    \o <<HeaderLine>>
    \o [k \in 1..Len(GridRows) |->
          SpacedLine(y, GridRows[k][1], GridRows[k][2], GridRows[k][3],
                     GridRows[k][4] + (y - 2022))]

FileOf(file_path) == FileLines(CHOOSE y \in FileYears : ParFileName(y) = file_path)

-----------------------------------------------------------------------------
(* apps/semidynamic.py : construction of the corrector *)

\* A survey timestamp is [kind |-> "datetime", year, month, microsecond];
\* a plain year is [kind |-> "int", value].
Timestamps ==
    [kind : {"datetime"}, year : SurveyYears, month : 1..12,
     microsecond : {0, 700000}]

PlainYears == [kind : {"int"}, value : SurveyYears]

\* datetime_formatter(dt): a datetime loses its microseconds, an int is
\* refused.
datetime_formatter(dt) ==
    IF dt.kind = "datetime"
    THEN [ok |-> TRUE, error |-> "none",
          value |-> [kind |-> "datetime", year |-> dt.year, month |-> dt.month,
                     microsecond |-> 0]]
    ELSE [ok |-> FALSE, error |-> "TypeError"]

\* needle in hay, for strings
Contains(hay, needle) ==
    \E k \in 0..(Len(hay) - Len(needle)) :
        SubSeq(hay, k + 1, k + Len(needle)) = needle

_clean_line(line) ==
    LET kept == SelectSeq(line, LAMBDA tok : tok.kind # "blank")
    IN  [k \in 1..Len(kept) |->
            IF kept[k].kind = "num" THEN kept[k].num ELSE kept[k].word]

\* Variant: the columns dB(sec) and dL(sec) renamed the other way round.
RenameColumn_swapped(name) ==
    CASE name = "dB(sec)" -> "delta_x"
      [] name = "dL(sec)" -> "delta_y"
      [] name = "dH(m)" -> "delta_z"
      [] OTHER -> name

RenameColumn(name) ==
    CASE name = "dB(sec)" -> "delta_y"
      [] name = "dL(sec)" -> "delta_x"
      [] name = "dH(m)" -> "delta_z"
      [] OTHER -> name

\* read_parameters(file_path): the table indexed by MeshCode, as a function
\* from the mesh code (an integer) to the row's delta_x, delta_y, delta_z.
read_parameters(file_path) ==
    LET all == FileOf(file_path)
        lines == SubSeq(all, 16, Len(all))
        headers == _clean_line(lines[1])
        data == [k \in 1..(Len(lines) - 1) |-> _clean_line(lines[k + 1])]
        columns == [k \in 1..Len(headers) |-> RenameColumn(headers[k])]
        Col(name) == CHOOSE k \in 1..Len(columns) : columns[k] = name
        index == {data[k][Col("MeshCode")] : k \in 1..Len(data)}
        RowOf(code) == data[CHOOSE k \in 1..Len(data) : data[k][Col("MeshCode")] = code]
    IN  [code \in index |->
            [delta_x |-> RowOf(code)[Col("delta_x")],
             delta_y |-> RowOf(code)[Col("delta_y")],
             delta_z |-> RowOf(code)[Col("delta_z")]]]

\* SemiDynamicCorrection.__init__(datetime): the attributes of the object, or
\* the exception with the attributes assigned before it was raised.
SemiDynamicCorrectionInit(datetime) ==
    LET formatted == datetime_formatter(datetime)
        _datetime == formatted.value
        year == IF 4 <= _datetime.month THEN _datetime.year
                ELSE _datetime.year - 1
        found == SelectSeq(SEMIDYNA_FILES, LAMBDA file : Contains(file, str(year)))
    IN  IF ~formatted.ok THEN [error |-> formatted.error]
        ELSE IF found = <<>>
             THEN [error |-> "IndexError", _datetime |-> _datetime, year |-> year]
        ELSE [error |-> "none",
              _datetime |-> _datetime,
              year |-> year,
              _file_path |-> found[1],
              _param_df |-> read_parameters(found[1])]

-----------------------------------------------------------------------------
(* apps/config.py : SemiDynamicCorrection.check_correction_year *)

\* formatter.check_datetime_format(value) for a datetime
check_datetime_format(value) ==
    [kind |-> "datetime", year |-> value.year, month |-> value.month,
     microsecond |-> 0]

\* Variant: April still counted to the previous fiscal year.
check_correction_year_april(value) ==
    IF value.kind = "int" THEN value.value
    ELSE LET datetime_ == check_datetime_format(value)
             year == datetime_.year
             month == datetime_.month
         IN  IF month <= 4 THEN year - 1 ELSE year

check_correction_year(value) ==
    IF value.kind = "int" THEN value.value
    ELSE LET datetime_ == check_datetime_format(value)
             year == datetime_.year
             month == datetime_.month
         IN  IF month <= 3 THEN year - 1 ELSE year

-----------------------------------------------------------------------------
(* Operations on the survey timestamp *)

MaxReads == 2      \* constructions that open a parameter file

\* Variant: the construction opens no file.
opened_files_none(self) == <<>>

\* The files __init__ has opened: read_parameters opens self._file_path
\* once; it is not reached when no file name holds the year.
opened_files(self) ==
    IF self.error = "none" THEN <<self._file_path>> ELSE <<>>

\* corrector = SemiDynamicCorrection(survey)
NewCorrector ==
    /\ Len(reads) < MaxReads
    /\ \E self \in {SemiDynamicCorrectionInit(survey)} :
          /\ corrector' = self
          /\ reads' = reads \o opened_files(self)
    /\ UNCHANGED <<inputVars, meshVars, survey, web_request, corrVars, modelVars, webVars>>

\* pydantic runs the validator on the correction_year handed to
\* apps.config.SemiDynamicCorrection
ValidateCorrectionYear ==
    /\ web_request' = [value |-> survey,
                       correction_year |-> check_correction_year(survey)]
    /\ UNCHANGED <<inputVars, meshVars, survey, corrector, reads, corrVars, modelVars, webVars>>

InitYear ==
    /\ survey \in Timestamps \cup PlainYears
    /\ points = <<>> /\ codes = <<>>
    /\ records = <<>> /\ args = <<>>
    /\ NoObjects

NextYear == NewCorrector \/ ValidateCorrectionYear

SpecYear == InitYear /\ [][NextYear]_vars

-----------------------------------------------------------------------------
(* apps/semidynamic.py : the correction of one point *)

lon_param == 225 * Sec
lat_param == 150 * Sec

\* round(v, 1) of a value in seconds of arc.  A value that ends in exactly
\* 0.05" is not a binary float: which neighbour its product with 3600 rounds
\* to depends on the operands, and half_up picks one.
round1(v, half_up) ==
    LET q == v \div (Sec \div 10)
        r == v % (Sec \div 10)
    IN  IF 2 * r < Sec \div 10 THEN q * (Sec \div 10)
        ELSE IF 2 * r > Sec \div 10 THEN (q + 1) * (Sec \div 10)
        ELSE IF half_up THEN (q + 1) * (Sec \div 10)
        ELSE q * (Sec \div 10)

\* MeshDesign(name, lon, lat, standard_mesh_code)
MeshDesign(name, lon, lat, standard_mesh_code) ==
    [name |-> name, lon |-> lon, lat |-> lat,
     standard_mesh_code |-> standard_mesh_code]

\* The grid rows n (latitude n * 150") of the domain at which the doubles
\* lie below the row: there sec_lat / 3600 is no binary float and its product
\* with 60 in MeshCode rounds to the double before n * 2.5, as
\* 116250 / 3600 * 60 = 1937.4999999999998 for n = 775.  At every other row
\* of the domain the product is n * 2.5 itself.
RowsBelow ==
    {49, 98, 101}
    \cup {193 + 3 * k : k \in 0..3} \cup {386 + 3 * k : k \in 0..7}
    \cup {769 + 3 * k : k \in 0..16} \cup {1538 + 3 * k : k \in 0..20}

\* deg_lat = sec_lat / 3600 of a grid row as MeshCode reads it: the row
\* itself, or a latitude below it where the doubles lie below the row.
deg_lat(sec_lat) ==
    IF sec_lat % lat_param = 0 /\ (sec_lat \div lat_param) \in RowsBelow
    THEN sec_lat - 1
    ELSE sec_lat

\* deg_lon = sec_lon / 3600 of a grid column: 225 / 3600 = 1 / 16, so the
\* quotient and its products in MeshCode are exact in doubles.
deg_lon(sec_lon) == sec_lon

_adjust_mesh_code(lower_left_sec_lon, lower_left_sec_lat, lon_step, lat_step, name) ==
    LET sec_lon == lower_left_sec_lon + lon_step
        sec_lat == lower_left_sec_lat + lat_step
    IN  MeshDesign(name, sec_lon, sec_lat,
                   MeshCode(deg_lon(sec_lon), deg_lat(sec_lat)).standard_mesh_code)

\* Python's False, as semidynamic_mesh_design and _correction_2d return it.
False == [bool |-> FALSE]

\* The four corners, or False when a MeshCode could not be built.
semidynamic_mesh_design(lon, lat, lon_up, lat_up) ==
    LET m == Trunc(round1(lon, lon_up), lon_param)
        n == Trunc(round1(lat, lat_up), lat_param)
        lower_left_sec_lon == m * lon_param
        lower_left_sec_lat == n * lat_param
        lower_left_mesh_code == MeshCode(deg_lon(lower_left_sec_lon),
                                         deg_lat(lower_left_sec_lat))
    IN  IF lower_left_mesh_code.error # "none" THEN False
        ELSE [lower_left |->
                 MeshDesign("lower_left", lower_left_sec_lon, lower_left_sec_lat,
                            lower_left_mesh_code.standard_mesh_code),
              lower_right |->
                 _adjust_mesh_code(lower_left_sec_lon, lower_left_sec_lat,
                                   lon_param, 0, "lower_right"),
              upper_left |->
                 _adjust_mesh_code(lower_left_sec_lon, lower_left_sec_lat,
                                   0, lat_param, "upper_left"),
              upper_right |->
                 _adjust_mesh_code(lower_left_sec_lon, lower_left_sec_lat,
                                   lon_param, lat_param, "upper_right")]

\* Delta of a mesh code: the row of the table, KeyError naming the code when
\* the table has no such row, ValueError when int(mesh_code) fails.
_get_delta(_param_df, mesh_code) ==
    LET key == int(mesh_code)
    IN  IF ~key.ok THEN [error |-> "ValueError", mesh_code |-> mesh_code]
        ELSE IF key.val \notin DOMAIN _param_df
             THEN [error |-> "KeyError", mesh_code |-> mesh_code]
        ELSE [error |-> "none",
              delta_x |-> _param_df[key.val].delta_x,
              delta_y |-> _param_df[key.val].delta_y,
              delta_z |-> _param_df[key.val].delta_z]

\* Variant: the corners looked up from upper_right back to lower_left.
_get_delta_sets_reversed(_param_df, mesh_designs) ==
    LET lower_left_delta ==
            _get_delta(_param_df, mesh_designs.lower_left.standard_mesh_code)
        lower_right_delta ==
            _get_delta(_param_df, mesh_designs.lower_right.standard_mesh_code)
        upper_left_delta ==
            _get_delta(_param_df, mesh_designs.upper_left.standard_mesh_code)
        upper_right_delta ==
            _get_delta(_param_df, mesh_designs.upper_right.standard_mesh_code)
    IN  IF upper_right_delta.error # "none" THEN upper_right_delta
        ELSE IF upper_left_delta.error # "none" THEN upper_left_delta
        ELSE IF lower_right_delta.error # "none" THEN lower_right_delta
        ELSE IF lower_left_delta.error # "none" THEN lower_left_delta
        ELSE [error |-> "none",
              lower_left |-> lower_left_delta,
              lower_right |-> lower_right_delta,
              upper_left |-> upper_left_delta,
              upper_right |-> upper_right_delta]

_get_delta_sets(_param_df, mesh_designs) ==
    LET lower_left_delta ==
            _get_delta(_param_df, mesh_designs.lower_left.standard_mesh_code)
        lower_right_delta ==
            _get_delta(_param_df, mesh_designs.lower_right.standard_mesh_code)
        upper_left_delta ==
            _get_delta(_param_df, mesh_designs.upper_left.standard_mesh_code)
        upper_right_delta ==
            _get_delta(_param_df, mesh_designs.upper_right.standard_mesh_code)
    IN  IF lower_left_delta.error # "none" THEN lower_left_delta
        ELSE IF lower_right_delta.error # "none" THEN lower_right_delta
        ELSE IF upper_left_delta.error # "none" THEN upper_left_delta
        ELSE IF upper_right_delta.error # "none" THEN upper_right_delta
        ELSE [error |-> "none",
              lower_left |-> lower_left_delta,
              lower_right |-> lower_right_delta,
              upper_left |-> upper_left_delta,
              upper_right |-> upper_right_delta]

\* Exact quotients: num / den in lowest terms, den > 0.
RECURSIVE GCD(_, _)
GCD(a, b) == IF b = 0 THEN a ELSE ByValue(a % b, LAMBDA r : GCD(b, r))

Frac(num, den) ==
    ByValue(<<num, den>>,
            LAMBDA q :
               ByValue(GCD(IF q[1] < 0 THEN -q[1] ELSE q[1], q[2]),
                       LAMBDA g : [num |-> q[1] \div g, den |-> q[2] \div g]))

\* Variant: the weights of lower_left and upper_right exchanged.
Bilinear_mirrored(x_norm, y_norm, ll, lr, ur, ul) ==
    LET x == x_norm.num
        xd == x_norm.den
        y == y_norm.num
        yd == y_norm.den
    IN  Frac(y * x * ll
             + y * (xd - x) * lr
             + (yd - y) * (xd - x) * ur
             + (yd - y) * x * ul,
             yd * xd)

\* (1 - y)(1 - x) ll + y (1 - x) lr + y x ur + (1 - y) x ul
Bilinear(x_norm, y_norm, ll, lr, ur, ul) ==
    LET x == x_norm.num
        xd == x_norm.den
        y == y_norm.num
        yd == y_norm.den
    IN  Frac((yd - y) * (xd - x) * ll
             + y * (xd - x) * lr
             + y * x * ur
             + (yd - y) * x * ul,
             yd * xd)

\* Variant: the offset applied as published in both directions.
times_minus_one_never(delta, return_to_original) == delta

\* if return_to_original: delta *= -1
times_minus_one(delta, return_to_original) ==
    IF return_to_original THEN [num |-> -delta.num, den |-> delta.den]
    ELSE delta

\* _correction_2d(lon, lat, return_to_original): `ret` is what the call
\* returns or raises, `self` the object after the call, the other fields are
\* its local variables.  A corrected coordinate [deg, delta] stands for
\* deg + delta / 3600.
_correction_2d(self, lon, lat, return_to_original, lon_up, lat_up) ==
    LET _lon == lon
        _lat == lat
        Interpolated(mesh_designs, delta_sets) ==
            LET lower_left_design == mesh_designs.lower_left
                lower_right_design == mesh_designs.lower_right
                upper_left_design == mesh_designs.upper_left
                lower_left_delta == delta_sets.lower_left
                lower_right_delta == delta_sets.lower_right
                upper_left_delta == delta_sets.upper_left
                upper_right_delta == delta_sets.upper_right
                Applied(norm) ==
                    LET x_norm == norm[1]
                        y_norm == norm[2]
                        delta_lon_p ==
                            Bilinear(x_norm, y_norm,
                                     lower_left_delta.delta_x,
                                     lower_right_delta.delta_x,
                                     upper_right_delta.delta_x,
                                     upper_left_delta.delta_x)
                        delta_lat_p ==
                            Bilinear(x_norm, y_norm,
                                     lower_left_delta.delta_y,
                                     lower_right_delta.delta_y,
                                     upper_right_delta.delta_y,
                                     upper_left_delta.delta_y)
                        signed(delta) == times_minus_one(delta, return_to_original)
                    IN  [ret |-> [error |-> "none",
                                  lon |-> [deg |-> _lon,
                                           delta |-> signed(delta_lon_p)],
                                  lat |-> [deg |-> _lat,
                                           delta |-> signed(delta_lat_p)]],
                         self |-> self,
                         mesh_designs |-> mesh_designs,
                         x_norm |-> x_norm,
                         y_norm |-> y_norm]
            IN  ByValue(<<Frac(lon - lower_left_design.lon,
                               lower_right_design.lon - lower_left_design.lon),
                          Frac(lat - lower_left_design.lat,
                               upper_left_design.lat - lower_left_design.lat)>>,
                        Applied)
        Looked(mesh_designs) ==
            IF mesh_designs = False
            THEN [ret |-> [error |-> "none", lon |-> False, lat |-> False],
                  self |-> self,
                  mesh_designs |-> mesh_designs]
            ELSE ByValue(_get_delta_sets(self._param_df, mesh_designs),
                         LAMBDA delta_sets :
                            IF delta_sets.error # "none"
                            THEN [ret |-> delta_sets,
                                  self |-> self,
                                  mesh_designs |-> mesh_designs]
                            ELSE Interpolated(mesh_designs, delta_sets))
    IN  ByValue(semidynamic_mesh_design(lon, lat, lon_up, lat_up), Looked)

\* A Python list and a Python float, as the arguments of correction_2d.
List(items) == [list |-> items]
Float(value) == [float |-> value]
isinstance_list(value) == "list" \in DOMAIN value

\* zip(lon, lat)
zip(lon, lat) ==
    [k \in 1..(IF Len(lon) <= Len(lat) THEN Len(lon) ELSE Len(lat)) |->
        <<lon[k], lat[k]>>]

\* The loop of correction_2d from the i-th pair on: every call's result is
\* appended to results, an exception of a call leaves the loop and the
\* method.  ups[i] tells how round(.., 1) resolves a tie for the i-th pair.
RECURSIVE correction_2d_loop(_, _, _, _, _, _)
correction_2d_loop(self, pairs, ups, return_to_original, i, results) ==
    IF i > Len(pairs)
    THEN [ret |-> [error |-> "none",
                   lon |-> [k \in 1..Len(results) |-> results[k].lon],
                   lat |-> [k \in 1..Len(results) |-> results[k].lat]],
          self |-> self]
    ELSE LET Collected(frame) ==
                IF frame.ret.error # "none"
                THEN [ret |-> frame.ret, self |-> frame.self]
                ELSE ByValue(<<Append(results, frame.ret), i + 1>>,
                             LAMBDA next :
                                correction_2d_loop(frame.self, pairs, ups,
                                                   return_to_original,
                                                   next[2], next[1]))
         IN  ByValue(<<pairs[i][1], pairs[i][2], ups[i][1], ups[i][2]>>,
                     LAMBDA arg :
                        ByValue(_correction_2d(self, arg[1], arg[2],
                                               return_to_original,
                                               arg[3], arg[4]),
                                Collected))

\* The _correction_2d calls of correction_2d: one per pair of the two lists,
\* or the one call for two floats.
correction_2d_calls(self, lon, lat, return_to_original, ups) ==
    ByValue(<<IF isinstance_list(lon) /\ isinstance_list(lat)
              THEN zip(lon.list, lat.list)
              ELSE <<<<lon.float, lat.float>>>>,
              ups>>,
            LAMBDA arg :
               correction_2d_loop(self, arg[1], arg[2], return_to_original,
                                  1, <<>>))

\* Variant: the results collected in the reverse order of the inputs.
correction_2d_reversed(self, lon, lat, return_to_original, ups) ==
    LET Returned(done) ==
            LET n == Len(done.ret.lon)
            IN  IF done.ret.error # "none" THEN done
                ELSE IF isinstance_list(lon) /\ isinstance_list(lat)
                     THEN [ret |-> [error |-> "none",
                                    lon |-> [k \in 1..n |-> done.ret.lon[n + 1 - k]],
                                    lat |-> [k \in 1..n |-> done.ret.lat[n + 1 - k]]],
                           self |-> done.self]
                ELSE [ret |-> [error |-> "none",
                               lon |-> done.ret.lon[1],
                               lat |-> done.ret.lat[1]],
                      self |-> done.self]
    IN  ByValue(correction_2d_calls(self, lon, lat, return_to_original, ups),
                Returned)

\* Variant: the rows of the table are dropped once a call has used it.
correction_2d_consuming(self, lon, lat, return_to_original, ups) ==
    LET Emptied(obj) ==
            [obj EXCEPT !._param_df = [code \in {} |-> obj._param_df[code]]]
        Returned(done) ==
            IF done.ret.error # "none"
               \/ (isinstance_list(lon) /\ isinstance_list(lat))
            THEN [ret |-> done.ret, self |-> Emptied(done.self)]
            ELSE [ret |-> [error |-> "none",
                           lon |-> done.ret.lon[1],
                           lat |-> done.ret.lat[1]],
                  self |-> Emptied(done.self)]
    IN  ByValue(correction_2d_calls(self, lon, lat, return_to_original, ups),
                Returned)

\* correction_2d(lon, lat, return_to_original): what the call returns or
\* raises, and the object after the call.  With two lists it returns the
\* lists of the results, otherwise the result of its one call.
correction_2d(self, lon, lat, return_to_original, ups) ==
    LET Returned(done) ==
            IF done.ret.error # "none"
               \/ (isinstance_list(lon) /\ isinstance_list(lat))
            THEN done
            ELSE [ret |-> [error |-> "none",
                           lon |-> done.ret.lon[1],
                           lat |-> done.ret.lat[1]],
                  self |-> done.self]
    IN  ByValue(correction_2d_calls(self, lon, lat, return_to_original, ups),
                Returned)

-----------------------------------------------------------------------------
(* Operations on the corrector *)

\* The nodes of the 225" x 150" grid around (140.5 deg, 40 deg).
GridNodes ==
    {505800 * Sec + k * lon_param : k \in {-1, 0, 1}}
    \X {144000 * Sec + k * lat_param : k \in {-1, 0, 1}}

\* Points 0.05" before a grid line.
TiePoints ==
    { <<505800 * Sec - 50, 144000 * Sec + 3000>>,
      <<505800 * Sec + 4000, 144000 * Sec - 50>> }

\* Points around the grid row 775 (32 deg 17' 30"), one of RowsBelow: on the
\* row, inside the cell above it and inside the cell below it.
BandPoints ==
    {505800 * Sec, 505800 * Sec + 4000}
    \X {775 * lat_param + o : o \in {-lat_param, -3000, 0, 3000, lat_param - 100}}

CorrPoints == Points \cup GridNodes \cup TiePoints \cup BandPoints

\* Surveys of April, one per year.
CorrSurveys == {ts \in Timestamps : ts.month = 4 /\ ts.microsecond = 0}

\* corrector.correction_2d(lon, lat, return_to_original) with two floats,
\* for the next coordinate
Correction2d(return_to_original, lon_up, lat_up) ==
    /\ points # <<>>
    /\ corrector # None
    /\ corrector.error = "none"
    /\ \E frame \in {_correction_2d(corrector, Head(points)[1], Head(points)[2],
                                      return_to_original, lon_up, lat_up)} :
          /\ result' = frame.ret
          /\ corrector' = frame.self
          /\ locals' = [lon |-> Head(points)[1], lat |-> Head(points)[2],
                        return_to_original |-> return_to_original]
                       @@ [f \in DOMAIN frame \ {"ret", "self"} |-> frame[f]]
    /\ points' = Tail(points)
    /\ UNCHANGED <<codes, meshVars, survey, web_request, reads, calls, batch,
                 modelVars, webVars>>

\* A corrector is built for the survey and corrects one coordinate.
InitCorr ==
    /\ survey \in CorrSurveys
    /\ points \in {<<pt>> : pt \in CorrPoints}
    /\ codes = <<>>
    /\ records = <<>> /\ args = <<>>
    /\ NoObjects

NextCorr ==
    \/ NewCorrector
    \/ \E return_to_original \in BOOLEAN, lon_up \in BOOLEAN, lat_up \in BOOLEAN :
          Correction2d(return_to_original, lon_up, lat_up)

SpecCorr == InitCorr /\ [][NextCorr]_vars

Corrected == locals # None

Less(f, g) == f.num * g.den < g.num * f.den

\* C9 (as stated): for a point of the domain the lower-left corner is the
\* largest multiple of (225", 150") not exceeding the point, so
\* lower_left <= point < lower_left + step on both axes, and x_norm and
\* y_norm lie in [0, 1).
C9_LowerLeft ==
    (Corrected /\ InDomain(locals.lon, locals.lat)) =>
        LET ll == locals.mesh_designs.lower_left
        IN  /\ ll.lon % lon_param = 0 /\ ll.lat % lat_param = 0
            /\ ll.lon <= locals.lon /\ locals.lon < ll.lon + lon_param
            /\ ll.lat <= locals.lat /\ locals.lat < ll.lat + lat_param
            /\ result.error = "none" =>
                  /\ locals.x_norm.num >= 0 /\ locals.x_norm.num < locals.x_norm.den
                  /\ locals.y_norm.num >= 0 /\ locals.y_norm.num < locals.y_norm.den

OnGrid(lon, lat) == lon % 225000 = 0 /\ lat % 150000 = 0

\* The table of the corrector has no row for the mesh code.
Absent(mesh_code) ==
    \/ ~int(mesh_code).ok
    \/ int(mesh_code).val \notin DOMAIN corrector._param_df

\* The table holds the node (lon, lat) and the three nodes east, north and
\* north-east of it under their standard mesh codes.
Tabled(lon, lat) ==
    \A i \in {0, 1}, j \in {0, 1} :
        ~Absent(MeshCode(lon + i * lon_param,
                         lat + j * lat_param).standard_mesh_code)

\* C10: at a coordinate that is itself a node of the 225" x 150" grid, the
\* table holding the node and its neighbours, the correction applies exactly
\* the Delta stored for the node's own standard mesh code: delta_x to the
\* longitude and delta_y to the latitude (negated when return_to_original),
\* nothing of any other corner.
C10_ExactAtCorner ==
    (/\ Corrected /\ OnGrid(locals.lon, locals.lat)
     /\ Tabled(locals.lon, locals.lat)) =>
        LET own == MeshCode(locals.lon, locals.lat).standard_mesh_code
            row == corrector._param_df[int(own).val]
            sign == IF locals.return_to_original THEN -1 ELSE 1
        IN  /\ result.error = "none"
            /\ result.lon = [deg |-> locals.lon,
                             delta |-> [num |-> sign * row.delta_x, den |-> 1]]
            /\ result.lat = [deg |-> locals.lat,
                             delta |-> [num |-> sign * row.delta_y, den |-> 1]]
            /\ (locals.lon = 505800000 /\ locals.lat = 144000000) =>
                  /\ own = <<"6", "0", "4", "0", "0", "4", "0", "0">>
                  /\ result.lon.delta.num = sign * 1
                  /\ result.lat.delta.num = sign * (-4)

C10_Witness ==
    /\ Corrected /\ result.error = "none"
    /\ locals.lon = 505800000 - 225000 /\ locals.lat = 144000000
    /\ ~locals.return_to_original
    /\ result.lon.delta = [num |-> -2, den |-> 1]
    /\ result.lat.delta = [num |-> 3, den |-> 1]

\* The corners of the last correction, in the order of the lookups.
CornerCodes ==
    << locals.mesh_designs.lower_left.standard_mesh_code,
       locals.mesh_designs.lower_right.standard_mesh_code,
       locals.mesh_designs.upper_left.standard_mesh_code,
       locals.mesh_designs.upper_right.standard_mesh_code >>

SomeAbsent == \E k \in 1..4 : Absent(CornerCodes[k])

FirstAbsent ==
    CornerCodes[CHOOSE k \in 1..4 :
                    /\ Absent(CornerCodes[k])
                    /\ \A j \in 1..(k - 1) : ~Absent(CornerCodes[j])]

\* C11: when the table has no row for the standard mesh code of one of the
\* four corners, the correction of the point fails as a whole with an error
\* that names the first absent code in the order lower_left, lower_right,
\* upper_left, upper_right (a KeyError whenever the code is a numeral); no
\* corrected longitude or latitude is returned and nothing is interpolated.
C11_MissingCorner ==
    (Corrected /\ locals.mesh_designs # False /\ SomeAbsent) =>
        /\ result.error # "none"
        /\ result.mesh_code = FirstAbsent
        /\ int(FirstAbsent).ok => result.error = "KeyError"
        /\ DOMAIN result = {"error", "mesh_code"}
        /\ "x_norm" \notin DOMAIN locals /\ "y_norm" \notin DOMAIN locals

\* lower_left has a row, the three other corners have none.
C11_Witness ==
    /\ Corrected /\ locals.mesh_designs # False
    /\ ~Absent(CornerCodes[1])
    /\ Absent(CornerCodes[2]) /\ Absent(CornerCodes[3]) /\ Absent(CornerCodes[4])
    /\ result.error = "KeyError"
    /\ result.mesh_code = CornerCodes[2]

-----------------------------------------------------------------------------
(* Operations on the corrector: repeated calls and lists of coordinates *)

MaxBatch == 2      \* longest list handed to correction_2d
MaxCalls == 2      \* single-point calls recorded

\* A coordinate with the way round(.., 1) resolves a tie for its floats:
\* <<lon, lat, lon_up, lat_up>>.  A coordinate inside the table's grid, a
\* node, a coordinate 0.05" before a grid line under both roundings, and a
\* coordinate whose right-hand corners have no row.
BatchPoints ==
    { <<505800 * Sec + 4000, 144000 * Sec + 3000, FALSE, FALSE>>,
      <<505800 * Sec, 144000 * Sec, FALSE, FALSE>>,
      <<505800 * Sec - 50, 144000 * Sec + 3000, FALSE, FALSE>>,
      <<505800 * Sec - 50, 144000 * Sec + 3000, TRUE, FALSE>>,
      <<505800 * Sec + lon_param + 4000, 144000 * Sec + 3000, FALSE, FALSE>> }

\* Lists of different coordinates.
Batches ==
    UNION {{f \in [1..n -> BatchPoints] :
               \A a \in 1..n, b \in 1..n : f[a] = f[b] => a = b} :
           n \in 1..MaxBatch}

\* corrector.correction_2d(lon, lat, return_to_original) with the floats of
\* the i-th coordinate; every such call is made once.
CorrectSingle(i, return_to_original) ==
    /\ corrector # None
    /\ corrector.error = "none"
    /\ Cardinality(calls) < MaxCalls
    /\ i \in 1..Len(points)
    /\ \A call \in calls :
          call.point = points[i] => call.return_to_original # return_to_original
    /\ \E done \in {correction_2d(corrector, Float(points[i][1]),
                                    Float(points[i][2]), return_to_original,
                                    <<<<points[i][3], points[i][4]>>>>)} :
          /\ calls' = calls \cup {[point |-> points[i],
                                    return_to_original |-> return_to_original,
                                    ret |-> done.ret]}
          /\ corrector' = done.self
    /\ UNCHANGED <<inputVars, meshVars, survey, web_request, reads, result,
                   locals, batch, modelVars, webVars>>

\* corrector.correction_2d(lon, lat, return_to_original) with the lists of
\* the longitudes and of the latitudes of all coordinates, made once
CorrectBatch(return_to_original) ==
    /\ corrector # None
    /\ corrector.error = "none"
    /\ batch = None
    /\ \E done \in {correction_2d(corrector,
                                    List([k \in 1..Len(points) |-> points[k][1]]),
                                    List([k \in 1..Len(points) |-> points[k][2]]),
                                    return_to_original,
                                    [k \in 1..Len(points) |->
                                        <<points[k][3], points[k][4]>>])} :
          /\ batch' = [return_to_original |-> return_to_original,
                       ret |-> done.ret]
          /\ corrector' = done.self
    /\ UNCHANGED <<inputVars, meshVars, survey, web_request, reads, result,
                   locals, calls, modelVars, webVars>>

\* A corrector is built for a survey of April 2024 and corrects the
\* coordinates one by one and as lists.
InitBatch ==
    /\ survey \in {ts \in CorrSurveys : ts.year = 2024}
    /\ points \in Batches
    /\ codes = <<>>
    /\ records = <<>> /\ args = <<>>
    /\ NoObjects

NextBatch ==
    \/ NewCorrector
    \/ \E i \in 1..MaxBatch, return_to_original \in BOOLEAN :
          CorrectSingle(i, return_to_original)
    \/ \E return_to_original \in BOOLEAN : CorrectBatch(return_to_original)

SpecBatch == InitBatch /\ [][NextBatch]_vars

\* The recorded single-point calls that returned coordinates.
Succeeded(call) == call.ret.error = "none"

Negated(delta) == [num |-> -delta.num, den |-> delta.den]

BatchDone == batch # None

\* The recorded single-point call for the i-th coordinate with the flag of
\* the last call with lists, if there is one.
SingleOf(i) ==
    {call \in calls :
        /\ call.point = points[i]
        /\ call.return_to_original = batch.return_to_original}

\* C13: when every coordinate of the two lists succeeds, correction_2d
\* returns a 'lon' and a 'lat' list as long as the inputs, and entry i is
\* the result of the single-point correction of (lon[i], lat[i]) with the
\* same flag.
C13_BatchOrder ==
    (BatchDone /\ batch.ret.error = "none") =>
        /\ Len(batch.ret.lon) = Len(points)
        /\ Len(batch.ret.lat) = Len(points)
        /\ \A i \in 1..Len(points) :
              /\ batch.ret.lon[i].deg = points[i][1]
              /\ batch.ret.lat[i].deg = points[i][2]
              /\ \A call \in SingleOf(i) :
                    /\ batch.ret.lon[i] = call.ret.lon
                    /\ batch.ret.lat[i] = call.ret.lat

\* Two different coordinates, corrected as lists and one by one.
C13_Witness ==
    /\ BatchDone /\ batch.ret.error = "none"
    /\ Len(points) = MaxBatch
    /\ points[1] # points[2]
    /\ SingleOf(1) # {} /\ SingleOf(2) # {}
    /\ batch.ret.lon[1] # batch.ret.lon[2]
    /\ batch.ret.lon[1].delta.num # 0

\* A corner of the i-th coordinate has no row in the table.
Fails(i) ==
    LET designs == semidynamic_mesh_design(points[i][1], points[i][2],
                                           points[i][3], points[i][4])
    IN  \E name \in {"lower_left", "lower_right", "upper_left", "upper_right"} :
            Absent(designs[name].standard_mesh_code)

\* C14 (as stated): when a coordinate of the lists fails for a corner
\* without a row, correction_2d still returns one entry per coordinate: the
\* corrected coordinates of those that succeed and an error of its own for
\* the one that fails.
C14_PerPointError ==
    (BatchDone /\ \E i \in 1..Len(points) : Fails(i)) =>
        /\ batch.ret.error = "none"
        /\ Len(batch.ret.lon) = Len(points)
        /\ Len(batch.ret.lat) = Len(points)
        /\ \A i \in 1..Len(points) :
              IF Fails(i)
              THEN /\ "error" \in DOMAIN batch.ret.lon[i]
                   /\ batch.ret.lon[i].error = "KeyError"
              ELSE /\ batch.ret.lon[i].deg = points[i][1]
                   /\ batch.ret.lat[i].deg = points[i][2]

\* C17: once the corrector is constructed, no correction_2d call, with
\* floats or with lists, returning or raising, changes its parameter table,
\* its fiscal year or its survey timestamp.
C17_CorrectorFrame ==
    [][(corrector # None /\ corrector.error = "none") =>
          /\ corrector'._param_df = corrector._param_df
          /\ corrector'.year = corrector.year
          /\ corrector'._datetime = corrector._datetime
          /\ corrector'._file_path = corrector._file_path]_vars

\* Calls with floats and with lists were made, some returned and some
\* raised, and the corrector still holds the table read from its file.
C17_Witness ==
    /\ corrector # None /\ corrector.error = "none"
    /\ \E a \in calls, b \in calls : Succeeded(a) /\ ~Succeeded(b)
    /\ BatchDone /\ batch.ret.error = "KeyError"
    /\ corrector._param_df = read_parameters(corrector._file_path)
    /\ corrector.year = 2024

-----------------------------------------------------------------------------
(* Claims on the construction of the corrector *)

Constructed == corrector # None

\* The fiscal year of a survey timestamp.
FiscalYear(ts) == IF 4 <= ts.month THEN ts.year ELSE ts.year - 1

\* C15 (as stated): constructing a corrector for a survey timestamp whose
\* fiscal year has no parameter file fails with an error of its own kind,
\* NoParameterFileForYear, and leaves no corrector; when the file of that
\* year exists, construction succeeds and the corrector holds the table of
\* that year's file.
C15_NoFileForYear ==
    (Constructed /\ survey.kind = "datetime") =>
        IF FiscalYear(survey) \in FileYears
        THEN /\ corrector.error = "none"
             /\ corrector._file_path = ParFileName(FiscalYear(survey))
             /\ \A k \in 1..Len(GridRows) :
                   corrector._param_df[GridRows[k][1]].delta_z =
                       GridRows[k][4] + (FiscalYear(survey) - 2022)
        ELSE /\ corrector.error = "NoParameterFileForYear"
             /\ "_param_df" \notin DOMAIN corrector

-----------------------------------------------------------------------------
(* apps/models.py : DataModels *)

\* A value of an Optional field; the field holds None otherwise.
Value(v) == [value |-> v]

\* A DataModel object: `id` is the identity of the object, point_name is
\* held in tenths and `end` in hours; group_name is "".
DataModel(id, point_name, point_number, end) ==
    [id |-> id, sort_index |-> None, point_name |-> point_name,
     point_number |-> point_number, end |-> end,
     point |-> None, label |-> None, point_size |-> None]

\* DataModel.make_point(): the text of point_name, '1' for 1.0 and '1.1'
\* for 1.1.
make_point(model) ==
    IF model.point_name = None THEN [model EXCEPT !.point = None]
    ELSE LET integer == model.point_name.value \div 10
             decimal == model.point_name.value % 10
         IN  [model EXCEPT !.point =
                 Value(IF decimal = 0 THEN str(integer)
                       ELSE str(integer) \o <<".">> \o str(decimal))]

max(values) == CHOOSE v \in values : \A w \in values : w <= v

\* The indexes (from 1) of the models whose field is None, in order.
RECURSIVE no_numbers_idxs(_, _, _)
no_numbers_idxs(models, field, i) ==
    IF i > Len(models) THEN <<>>
    ELSE (IF models[i][field] = None THEN <<i>> ELSE <<>>)
         \o no_numbers_idxs(models, field, i + 1)

\* The loop of reset_point_numbers and reset_point_names: the models
\* without a value get max_number + 1, + 2, ... in their order.
reset_field(models, field, step) ==
    LET idxs == no_numbers_idxs(models, field, 1)
        not_none_numbers == {models[i][field].value :
                                i \in {j \in 1..Len(models) : models[j][field] # None}}
        max_number == IF not_none_numbers # {} THEN max(not_none_numbers) ELSE -step
        Rank(i) == CHOOSE k \in 1..Len(idxs) : idxs[k] = i
    IN  [i \in 1..Len(models) |->
            IF models[i][field] = None
            THEN [models[i] EXCEPT ![field] = Value(max_number + step * Rank(i))]
            ELSE models[i]]

reset_point_numbers(models) == reset_field(models, "point_number", 1)

reset_point_names(models) ==
    LET named == reset_field(models, "point_name", 10)
    IN  [i \in 1..Len(models) |-> make_point(named[i])]

\* model.model_dump().get(sort_column)
sort_key(model, sort_column) ==
    IF sort_column \in DOMAIN model THEN model[sort_column] ELSE None

\* sorted(keys) of keys that all hold a value
RECURSIVE sorted(_)
sorted(keys) ==
    IF keys = {} THEN <<>>
    ELSE LET least == CHOOSE k \in keys : \A other \in keys : k.value <= other.value
         IN  <<least>> \o sorted(keys \ {least})

reversed(seq) == [k \in 1..Len(seq) |-> seq[Len(seq) + 1 - k]]

\* The models picked by the indexes (from 0), each with its new sort_index.
picked(models, idxs) ==
    [i \in 1..Len(idxs) |->
        [models[idxs[i] + 1] EXCEPT !.sort_index = Value(i - 1)]]

\* DataModels.sort(): the object after the call and the exception raised.
\* sorted() raises TypeError when None is compared with a value.
sort(self) ==
    LET models == self.models
        keys == {sort_key(models[i], self.sort_column) : i \in 1..Len(models)}
        \* data[key] = i for every model in turn: the last index wins
        data(key) == max({i \in 1..Len(models) :
                            sort_key(models[i], self.sort_column) = key}) - 1
        ascending == IF None \in keys THEN <<None>> ELSE sorted(keys)
        sorted_keys == IF self.desending THEN reversed(ascending) ELSE ascending
        sorting_idx == [k \in 1..Len(sorted_keys) |-> data(sorted_keys[k])]
    IN  IF None \in keys /\ Cardinality(keys) > 1
        THEN [self |-> self, error |-> "TypeError"]
        ELSE [self |-> [self EXCEPT !.models = picked(models, sorting_idx)],
              error |-> "none"]

\* Variant: the check for repeated indexes left out.
sort_models_repeating(self, idx_list) ==
    IF {idx_list[k] : k \in 1..Len(idx_list)} # 0..(Len(self.models) - 1)
    THEN [self |-> self, error |-> "ValueError"]
    ELSE [self |-> [self EXCEPT !.models = picked(self.models, idx_list)],
          error |-> "none"]

\* DataModels.sort_models(idx_list)
sort_models(self, idx_list) ==
    IF {idx_list[k] : k \in 1..Len(idx_list)} # 0..(Len(self.models) - 1)
    THEN [self |-> self, error |-> "ValueError"]
    ELSE IF Cardinality({idx_list[k] : k \in 1..Len(idx_list)}) # Len(idx_list)
         THEN [self |-> self, error |-> "ValueError"]
    ELSE [self |-> [self EXCEPT !.models = picked(self.models, idx_list)],
          error |-> "none"]

\* list.pop(index): an index below 0 counts from the end; IndexError when
\* no element is there.
list_pop(list, index) ==
    LET at == IF index < 0 THEN index + Len(list) ELSE index
    IN  IF at < 0 \/ at >= Len(list)
        THEN [list |-> list, item |-> None, error |-> "IndexError"]
        ELSE [list |-> SubSeq(list, 1, at) \o SubSeq(list, at + 2, Len(list)),
              item |-> list[at + 1], error |-> "none"]

\* list.insert(index, item): an index below 0 counts from the end, and an
\* index outside the list is moved to its nearest end.
list_insert(list, index, item) ==
    LET from_end == IF index < 0 THEN index + Len(list) ELSE index
        at == IF from_end < 0 THEN 0
              ELSE IF from_end > Len(list) THEN Len(list) ELSE from_end
    IN  SubSeq(list, 1, at) \o <<item>> \o SubSeq(list, at + 1, Len(list))

\* Variant: the models at get and insert change places.
replacing_order_swapping(self, get, insert) ==
    IF get = insert THEN [self |-> self, error |-> "ValueError"]
    ELSE IF Len(self.models) < get \/ Len(self.models) < insert
         THEN [self |-> self, error |-> "ValueError"]
    ELSE IF list_pop(self.models, get).error # "none"
         THEN [self |-> self, error |-> "IndexError"]
    ELSE IF list_pop(self.models, insert).error # "none"
         THEN [self |-> [self EXCEPT !.models =
                           list_insert(list_pop(self.models, get).list, insert,
                                  list_pop(self.models, get).item)],
               error |-> "none"]
    ELSE LET g == list_pop(self.models, get).item
             i == list_pop(self.models, insert).item
         IN  [self |-> [self EXCEPT !.models =
                          [k \in 1..Len(self.models) |->
                              IF self.models[k] = g THEN i
                              ELSE IF self.models[k] = i THEN g
                              ELSE self.models[k]]],
              error |-> "none"]

\* DataModels.replacing_order(get, insert)
replacing_order(self, get, insert) ==
    IF get = insert THEN [self |-> self, error |-> "ValueError"]
    ELSE IF Len(self.models) < get \/ Len(self.models) < insert
         THEN [self |-> self, error |-> "ValueError"]
    ELSE LET get_model == list_pop(self.models, get)
         IN  IF get_model.error # "none"
             THEN [self |-> self, error |-> get_model.error]
             ELSE [self |-> [self EXCEPT !.models =
                               list_insert(get_model.list, insert, get_model.item)],
                   error |-> "none"]

\* Variant: the model after the given position is removed when there is one.
delete_model_next(self, idx) ==
    IF Len(self.models) < idx THEN [self |-> self, error |-> "ValueError"]
    ELSE IF list_pop(self.models, idx).error # "none"
         THEN [self |-> self, error |-> "IndexError"]
    ELSE IF list_pop(self.models, idx + 1).error # "none" \/ idx + 1 = 0
         THEN [self |-> [self EXCEPT !.models = list_pop(self.models, idx).list],
               error |-> "none"]
    ELSE [self |-> [self EXCEPT !.models = list_pop(self.models, idx + 1).list],
          error |-> "none"]

\* DataModels.delete_model(idx)
delete_model(self, idx) ==
    IF Len(self.models) < idx THEN [self |-> self, error |-> "ValueError"]
    ELSE LET popped == list_pop(self.models, idx)
         IN  IF popped.error # "none"
             THEN [self |-> self, error |-> popped.error]
             ELSE [self |-> [self EXCEPT !.models = popped.list],
                   error |-> "none"]

isinstance_DataModel(value) == "id" \in DOMAIN value

\* DataModels.add_models(models): one DataModel is appended, the models of
\* a list are appended in their order.
add_models(self, models) ==
    IF isinstance_DataModel(models)
    THEN [self |-> [self EXCEPT !.models = Append(self.models, models)],
          error |-> "none"]
    ELSE IF isinstance_list(models)
         THEN [self |-> [self EXCEPT !.models = self.models \o models.list],
               error |-> "none"]
    ELSE [self |-> self, error |-> "ValueError"]

\* kwargs.get(key, default)
kwargs_get(kwargs, key, default) ==
    IF key \in DOMAIN kwargs THEN kwargs[key] ELSE default

\* num % step of two ints, step not 0: the result has the sign of step.
python_mod(num, step) ==
    IF step > 0 THEN num % step ELSE -((-num) % (-step))

\* model.label = label; model.point_size = point_size
labelled(model, label, point_size) ==
    [model EXCEPT !.label = label, !.point_size = Value(point_size)]

\* Variant: the first model is given its label and size after the last one.
labeling_first_after_last(self, step, last, kwargs) ==
    LET base_size == kwargs_get(kwargs, "base_size", 2)
        step_size == kwargs_get(kwargs, "step_size", 4)
        first_size == kwargs_get(kwargs, "first_size", 6)
        models == self.models
    IN  IF models # <<>> /\ step = 0
        THEN [self |-> self, error |-> "ZeroDivisionError"]
        ELSE IF models = <<>> THEN [self |-> self, error |-> "IndexError"]
        ELSE [self |-> [self EXCEPT !.models =
                 [i \in 1..Len(models) |->
                     IF i = 1
                     THEN labelled(models[i], models[i].point, first_size)
                     ELSE IF (last /\ i = Len(models)) \/ python_mod(i, step) = 0
                          THEN labelled(models[i], models[i].point, step_size)
                     ELSE labelled(models[i], Value(<<>>), base_size)]],
              error |-> "none"]

\* DataModels.labeling(step, last, **kwargs): the loop over all models, then
\* the first model, then the last one when `last` is set.  '' is the empty
\* text.
labeling(self, step, last, kwargs) ==
    LET base_size == kwargs_get(kwargs, "base_size", 2)
        step_size == kwargs_get(kwargs, "step_size", 4)
        first_size == kwargs_get(kwargs, "first_size", 6)
        models == self.models
        in_loop == [i \in 1..Len(models) |->
                      IF python_mod(i, step) = 0
                      THEN labelled(models[i], models[i].point, step_size)
                      ELSE labelled(models[i], Value(<<>>), base_size)]
        with_first == [in_loop EXCEPT
                          ![1] = labelled(in_loop[1], in_loop[1].point, first_size)]
        with_last == [with_first EXCEPT
                         ![Len(models)] = labelled(with_first[Len(models)],
                                                   with_first[Len(models)].point,
                                                   step_size)]
    IN  IF models # <<>> /\ step = 0
        THEN [self |-> self, error |-> "ZeroDivisionError"]
        ELSE IF models = <<>> THEN [self |-> self, error |-> "IndexError"]
        ELSE [self |-> [self EXCEPT !.models =
                          IF last THEN with_last ELSE with_first],
              error |-> "none"]

\* DataModels(models=..., sort_column=..., desending=...): the numbers and
\* names are reset, then the models are sorted.
DataModelsInit(models, sort_column, desending) ==
    sort([models |-> reset_point_names(reset_point_numbers(models)),
          sort_column |-> sort_column,
          desending |-> desending])

-----------------------------------------------------------------------------
(* Operations on DataModels *)

MaxModels == 3     \* longest list of DataModel objects

\* The four models of SORT_DATA in tests/test.py (ids 1 to 4), a model that
\* repeats the name of the first and the number of the second and has no
\* end, and a model without name, number and end.
ModelPool ==
    << DataModel(1, Value(10), Value(1), Value(10)),
       DataModel(2, Value(11), Value(2), Value(11)),
       DataModel(3, Value(40), Value(3), Value(12)),
       DataModel(4, Value(30), Value(4), Value(13)),
       DataModel(5, Value(10), Value(2), None),
       DataModel(6, None, None, None) >>

\* Lists of different objects of the pool.
RecordLists ==
    UNION {{[k \in 1..n |-> ModelPool[ids[k]]] :
               ids \in {f \in [1..n -> 1..Len(ModelPool)] :
                           \A a \in 1..n, b \in 1..n : f[a] = f[b] => a = b}} :
           n \in 0..MaxModels}

SortColumns == {"point_number", "point_name", "end"}

\* The call made last, the models before it and what it raised.
Called(op, before, idx_list, error) ==
    [op |-> op, before |-> before, idx_list |-> idx_list, error |-> error]

\* data_models = DataModels(models=records, sort_column=..., desending=...)
NewDataModels(sort_column, desending) ==
    /\ data_models = None
    /\ last_call = None
    /\ \E made \in {DataModelsInit(records, sort_column, desending)} :
          /\ data_models' = IF made.error = "none" THEN made.self ELSE None
          /\ last_call' = Called("__init__", records, <<>>, made.error)
    /\ UNCHANGED <<inputVars, meshVars, yearVars, corrVars, records, args, webVars>>

\* data_models.sort_column = sort_column
SetSortColumn(sort_column) ==
    /\ data_models # None
    /\ data_models.sort_column # sort_column
    /\ data_models' = [data_models EXCEPT !.sort_column = sort_column]
    /\ last_call' = Called("sort_column", data_models.models, <<>>, "none")
    /\ UNCHANGED <<inputVars, meshVars, yearVars, corrVars, records, args, webVars>>

\* data_models.desending = desending
SetDesending(desending) ==
    /\ data_models # None
    /\ data_models.desending # desending
    /\ data_models' = [data_models EXCEPT !.desending = desending]
    /\ last_call' = Called("desending", data_models.models, <<>>, "none")
    /\ UNCHANGED <<inputVars, meshVars, yearVars, corrVars, records, args, webVars>>

\* data_models.sort()
Sort ==
    /\ data_models # None
    /\ \E done \in {sort(data_models)} :
          /\ data_models' = done.self
          /\ last_call' = Called("sort", data_models.models, <<>>, done.error)
    /\ UNCHANGED <<inputVars, meshVars, yearVars, corrVars, records, args, webVars>>

\* data_models.sort_models(idx_list) with the next list of indexes
SortModels ==
    /\ data_models # None
    /\ args # <<>>
    /\ \E done \in {sort_models(data_models, Head(args))} :
          /\ data_models' = done.self
          /\ last_call' = Called("sort_models", data_models.models, Head(args),
                                 done.error)
    /\ args' = Tail(args)
    /\ UNCHANGED <<inputVars, meshVars, yearVars, corrVars, records, webVars>>

NoInputs == points = <<>> /\ codes = <<>> /\ survey = None

\* A DataModels object is built from a list of models and sorted again
\* after its sort_column or desending was changed.
InitSort ==
    /\ records \in RecordLists
    /\ args = <<>>
    /\ NoInputs /\ NoObjects

NextSort ==
    \/ \E sort_column \in SortColumns, desending \in BOOLEAN :
          NewDataModels(sort_column, desending)
    \/ \E sort_column \in SortColumns : SetSortColumn(sort_column)
    \/ \E desending \in BOOLEAN : SetDesending(desending)
    \/ Sort

SpecSort == InitSort /\ [][NextSort]_vars

\* Lists of indexes for n models: one index less, as many and one more,
\* each index between 0 and n.
IdxLists(n) ==
    UNION {[1..k -> 0..n] : k \in {m \in {n - 1, n, n + 1} : m >= 0}}

\* The first models of SORT_DATA are built into a DataModels object and
\* re-ordered by a list of indexes.
InitSortModels ==
    /\ records \in {SubSeq(ModelPool, 1, n) : n \in 0..MaxModels}
    /\ args \in {<<idx_list>> : idx_list \in IdxLists(Len(records))}
    /\ NoInputs /\ NoObjects

NextSortModels ==
    \/ \E sort_column \in SortColumns, desending \in BOOLEAN :
          NewDataModels(sort_column, desending)
    \/ SortModels

SpecSortModels == InitSortModels /\ [][NextSortModels]_vars

\* data_models.replacing_order(get, insert)
ReplacingOrder(get, insert) ==
    /\ data_models # None
    /\ \E done \in {replacing_order(data_models, get, insert)} :
          /\ data_models' = done.self
          /\ last_call' = Called("replacing_order", data_models.models,
                                 <<get, insert>>, done.error)
    /\ UNCHANGED <<inputVars, meshVars, yearVars, corrVars, records, args, webVars>>

\* data_models.delete_model(idx)
DeleteModel(idx) ==
    /\ data_models # None
    /\ \E done \in {delete_model(data_models, idx)} :
          /\ data_models' = done.self
          /\ last_call' = Called("delete_model", data_models.models, <<idx>>,
                                 done.error)
    /\ UNCHANGED <<inputVars, meshVars, yearVars, corrVars, records, args, webVars>>

\* New DataModel objects, not yet in the list: the next object of the pool,
\* a list of the next two and None, which is neither.
NewModels ==
    LET held == IF data_models = None THEN {}
                ELSE {data_models.models[k].id :
                         k \in 1..Len(data_models.models)}
        fresh == {k \in 1..Len(ModelPool) : k \notin held}
        next == CHOOSE k \in fresh : \A j \in fresh : k <= j
        after == CHOOSE k \in fresh \ {next} : \A j \in fresh \ {next} : k <= j
    IN  {ModelPool[next], List(<<ModelPool[next], ModelPool[after]>>), None}

\* data_models.add_models(models)
AddModels(models) ==
    /\ data_models # None
    /\ Len(data_models.models) < MaxModels
    /\ \E done \in {add_models(data_models, models)} :
          /\ Len(done.self.models) <= MaxModels
          /\ data_models' = done.self
          /\ last_call' = Called("add_models", data_models.models, <<>>,
                                 done.error)
    /\ UNCHANGED <<inputVars, meshVars, yearVars, corrVars, records, args, webVars>>

\* data_models.sort_models(idx_list) with the list that moves the first
\* model to the end
RotateModels ==
    /\ data_models # None
    /\ \E idx_list \in {[k \in 1..Len(data_models.models) |->
                            k % Len(data_models.models)]} :
       \E done \in {sort_models(data_models, idx_list)} :
          /\ data_models' = done.self
          /\ last_call' = Called("sort_models", data_models.models, idx_list,
                                 done.error)
    /\ UNCHANGED <<inputVars, meshVars, yearVars, corrVars, records, args, webVars>>

\* Positions handed to replacing_order and delete_model: every position of
\* the longest list and the one behind it.
Indexes == 0..MaxModels

\* The first models of SORT_DATA are built into a DataModels object that is
\* then edited.
InitEdit ==
    /\ records \in {SubSeq(ModelPool, 1, n) : n \in 0..MaxModels}
    /\ args = <<>>
    /\ NoInputs /\ NoObjects

\* The models of the object are moved and deleted.
NextEdit ==
    \/ \E desending \in BOOLEAN : NewDataModels("point_number", desending)
    \/ \E get \in Indexes, insert \in Indexes : ReplacingOrder(get, insert)
    \/ \E idx \in Indexes : DeleteModel(idx)

SpecEdit == InitEdit /\ [][NextEdit]_vars

\* Every operation that changes the list of an object built with
\* sort_column = 'point_number'.
NextOperations ==
    \/ NewDataModels("point_number", FALSE)
    \/ \E get \in Indexes, insert \in Indexes : ReplacingOrder(get, insert)
    \/ \E idx \in Indexes : DeleteModel(idx)
    \/ \E models \in NewModels : AddModels(models)
    \/ Sort
    \/ RotateModels

SpecOperations == InitEdit /\ [][NextOperations]_vars

\* data_models.labeling(step=step, last=last, **kwargs)
Labeling(step, last, kwargs) ==
    /\ data_models # None
    /\ \E done \in {labeling(data_models, step, last, kwargs)} :
          /\ data_models' = done.self
          /\ last_call' = Called("labeling", data_models.models,
                                 <<step, last, kwargs>>, done.error)
    /\ UNCHANGED <<inputVars, meshVars, yearVars, corrVars, records, args, webVars>>

\* step: the default 5, steps that meet a position of a short list, 0 and
\* a step below 0.
Steps == {-2, 0, 1, 2, 5}

\* **kwargs: none, and all three sizes.
Kwargs == {<<>>, [base_size |-> 1, step_size |-> 3, first_size |-> 5]}

\* The first models of SORT_DATA, built into a DataModels object sorted by
\* point_name, are labelled again and again.
NextLabel ==
    \/ \E desending \in BOOLEAN : NewDataModels("point_name", desending)
    \/ \E step \in Steps, last \in BOOLEAN, kwargs \in Kwargs :
          Labeling(step, last, kwargs)

SpecLabel == InitEdit /\ [][NextLabel]_vars

-----------------------------------------------------------------------------
(* Claims on DataModels *)

Did(op) == last_call # None /\ last_call.op = op

\* The objects of a list, whatever their sort_index.
Unindexed(models) ==
    [k \in 1..Len(models) |-> [models[k] EXCEPT !.sort_index = None]]

\* `after` holds the objects of `before`, each once, in some order.
SameModels(before, after) ==
    /\ Len(after) = Len(before)
    /\ \A k \in 1..Len(before) :
          \E j \in 1..Len(after) : Unindexed(after)[j] = Unindexed(before)[k]

\* C19 (as stated): after DataModels.sort() the models are ordered by the
\* field named by sort_column, ascending when desending is False and
\* descending when it is True, also when sort() is called again after
\* sort_column or desending was changed: the same models, re-ordered.
C19_Sorted ==
    (Did("sort") /\ last_call.error = "none") =>
        LET models == data_models.models
            key(k) == sort_key(models[k], data_models.sort_column)
        IN  /\ SameModels(last_call.before, models)
            /\ \A a \in 1..Len(models), b \in 1..Len(models) :
                  (a < b /\ key(a) # None /\ key(b) # None) =>
                      IF data_models.desending
                      THEN key(a).value >= key(b).value
                      ELSE key(a).value <= key(b).value

Permutation(idx_list, n) ==
    /\ Len(idx_list) = n
    /\ \A v \in 0..(n - 1) : \E k \in 1..n : idx_list[k] = v

\* C20: sort_models(idx_list) raises ValueError and leaves models as they
\* are unless idx_list is a permutation of 0 .. len(models) - 1 (a wrong
\* length, an index out of range and a repeated index are all rejected);
\* for a permutation the new models[i] is the old models[idx_list[i]].
C20_SortModels ==
    Did("sort_models") =>
        LET before == last_call.before
            idx_list == last_call.idx_list
            after == data_models.models
        IN  IF Permutation(idx_list, Len(before))
            THEN /\ last_call.error = "none"
                 /\ Len(after) = Len(before)
                 /\ \A i \in 1..Len(after) :
                       /\ Unindexed(after)[i] = Unindexed(before)[idx_list[i] + 1]
                       /\ after[i].sort_index = Value(i - 1)
            ELSE /\ last_call.error = "ValueError"
                 /\ after = before

\* [2, 0, 1] applied to three models.
C20_Witness ==
    /\ Did("sort_models") /\ last_call.error = "none"
    /\ last_call.idx_list = <<2, 0, 1>>
    /\ [k \in 1..3 |-> last_call.before[k].id] = <<1, 2, 3>>
    /\ [k \in 1..3 |-> data_models.models[k].id] = <<3, 1, 2>>

\* The list without the model at a position (from 0).
Without(seq, pos) == SubSeq(seq, 1, pos) \o SubSeq(seq, pos + 2, Len(seq))

\* A replacing_order call with two different positions of the list.
ValidMove(call) ==
    /\ call # None
    /\ call.op = "replacing_order"
    /\ call.idx_list[1] \in 0..(Len(call.before) - 1)
    /\ call.idx_list[2] \in 0..(Len(call.before) - 1)
    /\ call.idx_list[1] # call.idx_list[2]

\* C21: for distinct valid positions get and insert, replacing_order(get,
\* insert) returns normally, puts the model of position get at position
\* insert and keeps the order of all other models; when the next call is
\* replacing_order(get=insert, insert=get) the list is again what it was
\* before the first call.
C21_ReplacingOrder ==
    [][ValidMove(last_call') =>
          LET get == last_call'.idx_list[1]
              insert == last_call'.idx_list[2]
              before == last_call'.before
              after == data_models'.models
          IN  /\ last_call'.error = "none"
              /\ Len(after) = Len(before)
              /\ after[insert + 1] = before[get + 1]
              /\ Without(after, insert) = Without(before, get)
              /\ (/\ ValidMove(last_call)
                  /\ last_call.idx_list = <<insert, get>>) =>
                     after = last_call.before
      ]_vars

\* The second call of test_replace_order_from_data_models on three models:
\* replacing_order(get=2, insert=0) after replacing_order(get=0, insert=2).
C21_Witness ==
    /\ Did("replacing_order") /\ last_call.error = "none"
    /\ last_call.idx_list = <<2, 0>>
    /\ Len(last_call.before) = 3
    /\ [k \in 1..3 |-> last_call.before[k].point_number.value] = <<2, 3, 1>>
    /\ [k \in 1..3 |-> data_models.models[k].point_number.value] = <<1, 2, 3>>

\* C22: delete_model(idx) with a position of the list returns normally and
\* removes the model at that position only: the list is one shorter, all
\* other models remain in their order, the model that was at idx + 1 is at
\* idx.
C22_DeleteModel ==
    (Did("delete_model")
        /\ last_call.idx_list[1] \in 0..(Len(last_call.before) - 1)) =>
        LET idx == last_call.idx_list[1]
            before == last_call.before
            after == data_models.models
        IN  /\ last_call.error = "none"
            /\ Len(after) = Len(before) - 1
            /\ after = Without(before, idx)
            /\ \A k \in 1..Len(after) :
                  after[k] = IF k <= idx THEN before[k] ELSE before[k + 1]

\* delete_model(1) of test_delete_model_from_data_models on three models.
C22_Witness ==
    /\ Did("delete_model") /\ last_call.error = "none"
    /\ last_call.idx_list = <<1>>
    /\ Len(last_call.before) = 3 /\ Len(data_models.models) = 2
    /\ [k \in 1..3 |-> last_call.before[k].point_number.value] = <<1, 2, 3>>
    /\ [k \in 1..2 |-> data_models.models[k].point_number.value] = <<1, 3>>

\* A labeling call on a list that is not empty, which returned.
Labelled ==
    /\ Did("labeling") /\ last_call.error = "none"
    /\ last_call.before # <<>>

\* The model at a position (from 1) has the given label and size after the
\* call and is otherwise as before it.
Shows(i, label, point_size) ==
    data_models.models[i] =
        [last_call.before[i] EXCEPT !.label = label,
                                    !.point_size = Value(point_size)]

Abs(n) == IF n < 0 THEN -n ELSE n

\* C23 (as stated): after labeling(step, last) on a list that is not empty
\* the first model has label = point and point_size = first_size, every
\* model at a position (from 1) divisible by step has label = point and
\* point_size = step_size, with last = True the last model has label =
\* point and point_size = step_size, and every other model has label ''
\* and point_size = base_size.
C23_Labeling ==
    Labelled =>
        LET step == last_call.idx_list[1]
            last == last_call.idx_list[2]
            kwargs == last_call.idx_list[3]
            before == last_call.before
            n == Len(before)
            Stepped(i) == i % Abs(step) = 0
        IN  /\ Len(data_models.models) = n
            /\ Shows(1, before[1].point, kwargs_get(kwargs, "first_size", 6))
            /\ \A i \in 1..n :
                  /\ Stepped(i) =>
                        Shows(i, before[i].point,
                              kwargs_get(kwargs, "step_size", 4))
                  /\ (last /\ i = n) =>
                        Shows(i, before[i].point,
                              kwargs_get(kwargs, "step_size", 4))
                  /\ (i # 1 /\ ~Stepped(i) /\ ~(last /\ i = n)) =>
                        Shows(i, Value(<<>>),
                              kwargs_get(kwargs, "base_size", 2))

\* C23 (amended): labeling(step, last) with step # 0 on a list that is not
\* empty returns normally and decides every model by the first rule that
\* applies: the last model, when last is True, has label = point and
\* point_size = step_size (also when it is the only model); otherwise the
\* first model has label = point and point_size = first_size (also when
\* step divides 1); otherwise a model at a position divisible by step has
\* label = point and point_size = step_size; every other model has label
\* '' and point_size = base_size.  Nothing else of a model changes and the
\* labels of an earlier call play no part.
C23_LabelingPrecedence ==
    (Did("labeling") /\ last_call.before # <<>> /\ last_call.idx_list[1] # 0) =>
        LET step == last_call.idx_list[1]
            last == last_call.idx_list[2]
            kwargs == last_call.idx_list[3]
            before == last_call.before
            n == Len(before)
        IN  /\ last_call.error = "none"
            /\ Len(data_models.models) = n
            /\ \A i \in 1..n :
                  IF last /\ i = n
                  THEN Shows(i, before[i].point,
                             kwargs_get(kwargs, "step_size", 4))
                  ELSE IF i = 1
                       THEN Shows(i, before[i].point,
                                  kwargs_get(kwargs, "first_size", 6))
                  ELSE IF i % Abs(step) = 0
                       THEN Shows(i, before[i].point,
                                  kwargs_get(kwargs, "step_size", 4))
                  ELSE Shows(i, Value(<<>>), kwargs_get(kwargs, "base_size", 2))

\* labeling(step=2, last=False) on three models that labeling() had
\* labelled before: the label of the last model is taken away, the second
\* model gets one.
C23_Witness ==
    /\ Labelled
    /\ last_call.idx_list[1] = 2 /\ ~last_call.idx_list[2]
    /\ DOMAIN last_call.idx_list[3] = {}
    /\ Len(last_call.before) = 3
    /\ last_call.before[3].label = last_call.before[3].point
    /\ last_call.before[3].point_size = Value(4)
    /\ last_call.before[2].label = Value(<<>>)
    /\ data_models.models[1].point_size = Value(6)
    /\ data_models.models[2].label = Value(<<"1", ".", "1">>)
    /\ data_models.models[2].point_size = Value(4)
    /\ data_models.models[3].label = Value(<<>>)
    /\ data_models.models[3].point_size = Value(2)

-----------------------------------------------------------------------------
(* apps/web.py : fetch_elevation_from_web, fetch_corrected_semidynamic_from_web *)

max_retry == 5

\* len(tasks) == 10 in the source: the coroutines gathered at once, scaled
\* to the short lists of points tried here.
GatherSize == 2

MaxFetch == 3      \* longest lists lons, lats

\* What the server holds for a point: its elevation, or the corrected
\* coordinates as Coords(longitude, latitude, altitude).
Answer(kind, point) ==
    IF kind = "elevation" THEN Value(point[1] + point[2])
    ELSE Value([longitude |-> point[1] + 1, latitude |-> point[2] - 1,
                altitude |-> 0])

\* The outcomes of one attempt: a response with the value, a response with
\* ErrMsg, aiohttp.ClientError, and an exception that is no ClientError
\* (asyncio.TimeoutError when time_out is exceeded while the response is
\* read).
Outcomes == {"value", "ErrMsg", "ClientError", "TimeoutError"}

\* One pass of the loop `for _ in range(max_retry)` of fetch_elevation and
\* fetch_corrected_semidynamic for a coroutine whose request got the given
\* outcome: the coroutine returns {index: ...}, sends the next request, or
\* raises.
fetch_step(kind, task, outcome) ==
    IF outcome = "value"
    THEN [task EXCEPT !.state = "returned",
                      !.ret = Answer(kind, <<task.lon, task.lat>>)]
    ELSE IF outcome \in {"ErrMsg", "ClientError"}
         THEN IF task.attempt < max_retry
              THEN [task EXCEPT !.attempt = task.attempt + 1]
              ELSE [task EXCEPT !.state = "returned", !.ret = None]
    ELSE [task EXCEPT !.state = "raised", !.ret = outcome]

\* The coroutines made from the next points of zip(idxs, lons, lats), at
\* most GatherSize of them, each with its first request sent.
next_tasks(lonlats, from) ==
    [index \in from..(IF from + GatherSize <= Len(lonlats)
                      THEN from + GatherSize - 1 ELSE Len(lonlats) - 1) |->
        [index |-> index, lon |-> lonlats[index + 1][1],
         lat |-> lonlats[index + 1][2], attempt |-> 1,
         state |-> "waiting", ret |-> None]]

\* asyncio.gather(*tasks): the results in the order of the coroutines
gather(group) ==
    LET first == CHOOSE i \in DOMAIN group : \A j \in DOMAIN group : i <= j
    IN  [k \in 1..Cardinality(DOMAIN group) |->
            [index |-> group[first + k - 1].index,
             value |-> group[first + k - 1].ret]]

\* From `_data = {}` to the return of fetch_..._from_web: the dicts are
\* merged and the values listed by sorted index.
sorted_values(resps_lst) ==
    LET keys == {resps_lst[k].index : k \in 1..Len(resps_lst)}
        \* _data.update(resp) for every resp in turn: the last one wins
        _data(key) == resps_lst[max({k \in 1..Len(resps_lst) :
                                        resps_lst[k].index = key})].value
        sorted_keys == sorted({Value(key) : key \in keys})
    IN  [k \in 1..Len(sorted_keys) |-> _data(sorted_keys[k].value)]

\* The loop of fetch_..._main from the given index on, up to its next
\* await or its return.
main_loop(kind, lonlats, from, results) ==
    IF from < Len(lonlats)
    THEN [main |-> [kind |-> kind, pc |-> "gather", results |-> results],
          tasks |-> next_tasks(lonlats, from),
          fetched |-> None]
    ELSE [main |-> [kind |-> kind, pc |-> "returned", results |-> results],
          tasks |-> <<>>,
          fetched |-> [error |-> "none", list |-> sorted_values(results)]]

\* One more GET request for each of the indexes.
sent(log, indexes) ==
    [i \in DOMAIN log |->
        IF i \in indexes THEN [log[i] EXCEPT !.sent = log[i].sent + 1]
        ELSE log[i]]

\* fetch_elevation_from_web(lons, lats) or
\* fetch_corrected_semidynamic_from_web(datetime, lons, lats), up to the
\* first gather
FetchFromWeb(kind) ==
    /\ main = None
    /\ \E run \in {main_loop(kind, points, 0, <<>>)} :
          /\ main' = run.main
          /\ tasks' = run.tasks
          /\ fetched' = run.fetched
          /\ requests' = sent([i \in 0..(Len(points) - 1) |->
                                  [sent |-> 0, answered |-> FALSE]],
                              DOMAIN run.tasks)
    /\ UNCHANGED <<inputVars, meshVars, yearVars, corrVars, modelVars>>

\* The request of the coroutine of an index ends with the given outcome.
Respond(index, outcome) ==
    /\ main # None
    /\ main.pc = "gather"
    /\ index \in DOMAIN tasks
    /\ tasks[index].state = "waiting"
    /\ \E task \in {fetch_step(main.kind, tasks[index], outcome)} :
          /\ tasks' = [tasks EXCEPT ![index] = task]
          /\ requests' =
                LET log == IF task.attempt > tasks[index].attempt
                           THEN sent(requests, {index}) ELSE requests
                IN  [log EXCEPT ![index].answered = @ \/ outcome = "value"]
    /\ UNCHANGED <<inputVars, meshVars, yearVars, corrVars, modelVars, main,
                   fetched>>

\* Every gathered coroutine has returned: the results are added and the
\* loop goes on to the next gather or to the return.
Gathered ==
    /\ main # None
    /\ main.pc = "gather"
    /\ \A index \in DOMAIN tasks : tasks[index].state = "returned"
    /\ \E run \in {main_loop(main.kind, points,
                              Len(main.results) + Cardinality(DOMAIN tasks),
                              main.results \o gather(tasks))} :
          /\ main' = run.main
          /\ tasks' = run.tasks
          /\ fetched' = run.fetched
          /\ requests' = sent(requests, DOMAIN run.tasks)
    /\ UNCHANGED <<inputVars, meshVars, yearVars, corrVars, modelVars>>

\* A gathered coroutine has raised: gather raises its exception, it leaves
\* fetch_..._main and asyncio.run, which cancels the coroutines that wait.
GatherRaised ==
    /\ main # None
    /\ main.pc = "gather"
    /\ \E index \in DOMAIN tasks :
          /\ tasks[index].state = "raised"
          /\ fetched' = [error |-> tasks[index].ret]
    /\ main' = [main EXCEPT !.pc = "raised"]
    /\ tasks' = [index \in DOMAIN tasks |->
                    IF tasks[index].state = "waiting"
                    THEN [tasks[index] EXCEPT !.state = "cancelled"]
                    ELSE tasks[index]]
    /\ UNCHANGED <<inputVars, meshVars, yearVars, corrVars, modelVars,
                   requests>>

\* The points asked for: <<lon, lat>> in seconds.
WebPoints == {<<507600, 147600>>, <<507645, 147630>>}

InitWeb ==
    /\ points \in UNION {[1..n -> WebPoints] : n \in 0..MaxFetch}
    /\ codes = <<>> /\ survey = None
    /\ records = <<>> /\ args = <<>>
    /\ NoObjects

NextWeb ==
    \/ \E kind \in {"elevation", "semidynamic"} : FetchFromWeb(kind)
    \/ \E index \in 0..(MaxFetch - 1), outcome \in Outcomes :
          Respond(index, outcome)
    \/ Gathered
    \/ GatherRaised

SpecWeb == InitWeb /\ [][NextWeb]_vars

\* C24: fetch_elevation_from_web and fetch_corrected_semidynamic_from_web
\* return one entry per input point, entry i being the value fetched for
\* (lons[i], lats[i]), or None when all max_retry attempts for that point
\* failed, in whatever order the requests of a gather end; a point is
\* requested at most max_retry times and not again after its first
\* successful response.
C24_FetchInOrder ==
    [][/\ \A i \in DOMAIN requests' : requests'[i].sent <= max_retry
       /\ \A i \in DOMAIN requests :
             requests[i].answered => requests'[i].sent = requests[i].sent
       /\ fetched' # None =>
             /\ fetched'.error = "none"
             /\ Len(fetched'.list) = Len(points)
             /\ \A i \in 1..Len(points) :
                   IF requests'[i - 1].answered
                   THEN fetched'.list[i] = Answer(main'.kind, points[i])
                   ELSE /\ fetched'.list[i] = None
                        /\ requests'[i - 1].sent = max_retry
      ]_vars

-----------------------------------------------------------------------------
(* Further claims on DataModels *)

\* How often an object is in a list.
Count(models, id) == Cardinality({k \in 1..Len(models) : models[k].id = id})

\* C25: sort() is a permutation of models: after sort(), and after the
\* construction of DataModels, which calls it, every model is in the list
\* as often as before, also when models share their sort_column value.
C25_SortPermutation ==
    ((Did("sort") \/ Did("__init__")) /\ last_call.error = "none") =>
        /\ Len(data_models.models) = Len(last_call.before)
        /\ \A k \in 1..Len(last_call.before) :
              Count(data_models.models, last_call.before[k].id)
                  = Count(last_call.before, last_call.before[k].id)

-----------------------------------------------------------------------------
(* apps/semidynamic.py : the weights of _correction_2d *)

\* Normalized positions in a cell, its edges included, and corner deltas.
Norms == {Frac(0, 1), Frac(1, 4), Frac(1, 2), Frac(1, 1)}
CornerDeltas == {-4, 0, 1, 3}

\* delta_lon_p of _correction_2d for the x_norm, y_norm and the four
\* delta_x held in `locals`
Interpolate ==
    /\ result = None
    /\ result' = [delta_lon_p |->
                     Bilinear(locals.x_norm, locals.y_norm,
                              locals.lower_left, locals.lower_right,
                              locals.upper_right, locals.upper_left)]
    /\ UNCHANGED <<inputVars, meshVars, yearVars, locals, calls, batch,
                   modelVars, webVars>>

InitWeights ==
    /\ locals \in [x_norm : Norms, y_norm : Norms,
                    lower_left : CornerDeltas, lower_right : CornerDeltas,
                    upper_left : CornerDeltas, upper_right : CornerDeltas]
    /\ NoInputs
    /\ records = <<>> /\ args = <<>>
    /\ mesh = None /\ prev = None /\ rev = None
    /\ corrector = None /\ web_request = None /\ reads = <<>>
    /\ result = None
    /\ calls = {} /\ batch = None
    /\ data_models = None /\ last_call = None
    /\ main = None /\ tasks = <<>> /\ requests = <<>> /\ fetched = None

NextWeights == Interpolate

SpecWeights == InitWeights /\ [][NextWeights]_vars

\* C26: the bilinear weights sum to 1 (four equal corner deltas give that
\* delta everywhere) and give each corner full weight at its own position:
\* at (x_norm, y_norm) = (0, 0) the interpolated delta is lower_left's, at
\* (1, 0) lower_right's, at (0, 1) upper_left's and at (1, 1)
\* upper_right's, x_norm running from lower_left to lower_right and y_norm
\* from lower_left to upper_left.
C26_CornerWeights ==
    result # None =>
        LET at(x, y) == locals.x_norm = Frac(x, 1) /\ locals.y_norm = Frac(y, 1)
            is(delta) == result.delta_lon_p = Frac(delta, 1)
        IN  /\ (/\ locals.lower_right = locals.lower_left
                /\ locals.upper_left = locals.lower_left
                /\ locals.upper_right = locals.lower_left) =>
                   is(locals.lower_left)
            /\ at(0, 0) => is(locals.lower_left)
            /\ at(1, 0) => is(locals.lower_right)
            /\ at(0, 1) => is(locals.upper_left)
            /\ at(1, 1) => is(locals.upper_right)

\* C27: after any sequence of sort, sort_models, replacing_order,
\* delete_model and add_models that returned normally every model's
\* sort_index is its position (from 0) in models.
C27_SortIndex ==
    (/\ last_call # None
     /\ last_call.op \in {"sort", "sort_models", "replacing_order",
                          "delete_model", "add_models"}
     /\ last_call.error = "none") =>
        \A k \in 1..Len(data_models.models) :
            data_models.models[k].sort_index = Value(k - 1)

\* C28: replacing_order and delete_model called with an index that is not
\* a position of the list (index >= len(models), len(models) itself
\* included) raise ValueError and leave models unchanged; replacing_order
\* with get = insert raises ValueError and leaves models unchanged.
C28_OutOfRange ==
    LET n == Len(last_call.before)
        Refused == /\ last_call.error = "ValueError"
                   /\ data_models.models = last_call.before
    IN  /\ Did("replacing_order") =>
              /\ (last_call.idx_list[1] >= n \/ last_call.idx_list[2] >= n) =>
                    Refused
              /\ last_call.idx_list[1] = last_call.idx_list[2] => Refused
        /\ Did("delete_model") => (last_call.idx_list[1] >= n => Refused)

-----------------------------------------------------------------------------
(* The corners of the correction grid *)

\* corrector.semidynamic_mesh_design(lon, lat) with two floats, for the next
\* coordinate
SemidynamicMeshDesign(lon_up, lat_up) ==
    /\ points # <<>>
    /\ locals' = [lon |-> Head(points)[1], lat |-> Head(points)[2],
                  mesh_designs |->
                      semidynamic_mesh_design(Head(points)[1], Head(points)[2],
                                              lon_up, lat_up)]
    /\ points' = Tail(points)
    /\ UNCHANGED <<codes, meshVars, yearVars, result, calls, batch, modelVars,
                 webVars>>

InitDesign ==
    /\ points \in {<<pt>> : pt \in CorrPoints}
    /\ codes = <<>>
    /\ survey = None
    /\ records = <<>> /\ args = <<>>
    /\ NoObjects

NextDesign ==
    \E lon_up \in BOOLEAN, lat_up \in BOOLEAN : SemidynamicMeshDesign(lon_up, lat_up)

SpecDesign == InitDesign /\ [][NextDesign]_vars

\* The position in seconds of arc is unchanged by round(.., 1).
OnTenths(lon, lat) == lon % (Sec \div 10) = 0 /\ lat % (Sec \div 10) = 0

\* The digits lat3 and lon3 of a standard mesh code, and the code before them.
lat3(code) == int(<<code[Len(code) - 1]>>).val
lon3(code) == int(<<code[Len(code)]>>).val
secondary(code) == SubSeq(code, 1, Len(code) - 2)

\* C29: for a point of the domain whose position in seconds of arc is
\* unchanged by rounding to 0.1", the four corners of
\* semidynamic_mesh_design lie on a grid of 5 x 5 standard cells: lat3 and
\* lon3 of every corner's standard mesh code are 0 or 5, the lower-left
\* corner has the first and secondary mesh code of the point, its lat3 and
\* lon3 are the point's rounded down to a multiple of 5, and the other
\* corners lie (225", 0), (0, 150") and (225", 150") from it.
C29_CornerGrid ==
    (/\ locals # None
     /\ InDomain(locals.lon, locals.lat) /\ OnTenths(locals.lon, locals.lat)
     /\ locals.mesh_designs # False) =>
        LET d == locals.mesh_designs
            ll == d.lower_left
            own == MeshCode(locals.lon, locals.lat).standard_mesh_code
        IN  /\ \A name \in DOMAIN d :
                  /\ lat3(d[name].standard_mesh_code) \in {0, 5}
                  /\ lon3(d[name].standard_mesh_code) \in {0, 5}
            /\ secondary(ll.standard_mesh_code) = secondary(own)
            /\ lat3(ll.standard_mesh_code) = 5 * (lat3(own) \div 5)
            /\ lon3(ll.standard_mesh_code) = 5 * (lon3(own) \div 5)
            /\ d.lower_right.lon = ll.lon + lon_param /\ d.lower_right.lat = ll.lat
            /\ d.upper_left.lon = ll.lon /\ d.upper_left.lat = ll.lat + lat_param
            /\ d.upper_right.lon = ll.lon + lon_param
            /\ d.upper_right.lat = ll.lat + lat_param

-----------------------------------------------------------------------------
(* The quarter digit of MeshCode *)

\* The quarter (7.5") of its half cell (15") in which a latitude lies:
\* 0 the southern, 1 the northern.
LatQuarter(lat) == (lat % (15 * Sec)) \div ((15 * Sec) \div 2)

QuarterDigit(object) == object.quarter_mesh_code[Len(object.quarter_mesh_code)]

\* C30: the latitude quarter index t = floor(b / 7.5), taken from the
\* minutes remainder b in [0, 5), is 0 for every input, so the quarter digit
\* n = 2 * t + y + 1 is 1 or 2 and depends only on the longitude: two
\* coordinates of the same longitude get the same quarter digit, and the
\* northern and the southern quarter of a half cell get the same quarter
\* mesh code at the same longitude.
C30_QuarterDigit ==
    /\ mesh # None =>
          /\ _mesh_code_latitude(mesh.lat).t = 0
          /\ QuarterDigit(mesh) \in {"1", "2"}
          /\ QuarterDigit(mesh) = str(_mesh_code_longitude(mesh.lon).y + 1)[1]
    /\ (mesh # None /\ prev # None /\ mesh.lon = prev.lon) =>
          /\ QuarterDigit(mesh) = QuarterDigit(prev)
          /\ (/\ mesh.half_mesh_code = prev.half_mesh_code
              /\ LatQuarter(mesh.lat) # LatQuarter(prev.lat)) =>
                 mesh.quarter_mesh_code = prev.quarter_mesh_code

\* A coordinate of the northern quarter after one of the southern quarter
\* of the same half cell, at a longitude of the eastern quarter.
C30_Witness ==
    /\ mesh # None /\ prev # None
    /\ mesh.lon = prev.lon
    /\ mesh.half_mesh_code = prev.half_mesh_code
    /\ LatQuarter(prev.lat) = 0 /\ LatQuarter(mesh.lat) = 1
    /\ _mesh_code_longitude(mesh.lon).y = 1
    /\ QuarterDigit(mesh) = "2"
    /\ mesh.quarter_mesh_code = prev.quarter_mesh_code

====
